---- MODULE Spec2Model ----
(***************************************************************************)
(* A model of the trading decision engine of polyclaw: the paper book of   *)
(* src/src/position_manager.py, the strategy arena of                      *)
(* src/src/strategy_arena.py over the positions/trades tables of           *)
(* src/src/db.py, and the scan cycle of src/src/scanner.py.                *)
(*                                                                         *)
(* Units.  Money is counted in cents.  Market prices, model probabilities  *)
(* and observed prices are counted in cents of a dollar (1/100); target    *)
(* and stop prices, which the code rounds to four decimals, are counted in *)
(* 1/10000.  Confidence and ratios are percentages.  Python floats are     *)
(* modelled by exact rational arithmetic; round(x, 2) is rounding to the   *)
(* nearest cent, ties to even.  Time is counted in ticks of                *)
(* 1/TicksPerHour hour.                                                    *)
(***************************************************************************)
EXTENDS Integers, Sequences, FiniteSets, TLC

VARIABLES
    now,        \* wall clock, in ticks
    phase,      \* position of the scanner inside run_scan
    cycles,     \* number of scan cycles started
    bankroll,   \* --bankroll of the run, in cents
    batch,      \* the estimates of the current cycle
    cursor,     \* loop indices of the current phase
    paper,      \* positions.json: the primary paper book, a list
    signals,    \* the fresh signals of the cycle
    cooldowns,  \* signal_cooldowns table: key -> time of the last alert
    history,    \* trade_history.json
    db,         \* positions table: id -> row
    trades,     \* trades table
    prices,     \* the YES price each market shows during the current cycle
    last,       \* the last operation and the book it worked on
    sz,         \* inputs and results of one sizing evaluation
    cfg,        \* the configuration loaded by get_config
    mon,        \* the monitor process: position in main, alarm, counters
    filtered    \* filtered_signals.json: the audit log of rejected estimates

vars == <<now, phase, cycles, bankroll, batch, signals, cooldowns, cursor, paper, history,
          db, trades, prices, last, sz, cfg, mon, filtered>>

-----------------------------------------------------------------------------
(* Bounds of the model *)

TicksPerHour == 2
MaxCycles == 2
MaxBatch == 2

-----------------------------------------------------------------------------
(* Program constants: src/src/position_manager.py *)

MAX_OPEN_POSITIONS == 8
MAX_POSITION_PCT == 15
MAX_TOTAL_EXPOSURE_PCT == 100
COOLDOWN_HOURS == 1
TIMEOUT_HOURS == 24
TIMEOUT_MOVE_THRESHOLD == 2
BASE_TP_RATIO == 70
HIGH_CONF_TP_RATIO == 85
LOW_CONF_TP_RATIO == 55
BASE_SL_RATIO == 75
WIDE_SL_RATIO == 65
TIGHT_SL_RATIO == 82
TRAILING_STOP_ACTIVATION == 50
TRAILING_STOP_DISTANCE == 30
FEE_RATE == 3
KELLY_FRACTION == 50
TIGHTEN_AFTER_HOURS == 12
MIN_COST == 100
MIN_SHARES == 3

None == -1

-----------------------------------------------------------------------------
(* Arithmetic *)

Min(a, b) == IF a <= b THEN a ELSE b
Max(a, b) == IF a >= b THEN a ELSE b
Abs(a) == IF a >= 0 THEN a ELSE -a

\* round(n / d) to the nearest integer, ties to even; n >= 0, d > 0
RoundHalfEven(n, d) ==
    LET q == n \div d
        r == n % d
    IN  IF 2 * r < d THEN q
        ELSE IF 2 * r > d THEN q + 1
        ELSE IF q % 2 = 0 THEN q ELSE q + 1

\* <<q, r>> with x * n = q * d + r and 0 <= r < d, without forming x * n
MulDivModOf[x \in Nat, n \in Nat, d \in Nat] ==
    IF x = 0 THEN <<0, 0>>
    ELSE LET h == MulDivModOf[x \div 2, n, d]
             r2 == 2 * h[2]
             q1 == 2 * h[1] + (r2 \div d)
             r1 == r2 % d
             t == r1 + (IF x % 2 = 1 THEN n % d ELSE 0)
             a == IF x % 2 = 1 THEN n \div d ELSE 0
         IN  <<q1 + a + (t \div d), t % d>>

MulDivMod(x, n, d) == MulDivModOf[x, n, d]

\* round(x * n / (100 * d)), ties to even
RoundMulDiv100(x, n, d) ==
    LET m == MulDivMod(x, n, d)
        q == m[1] \div 100
        c == m[1] % 100
    IN  IF c < 50 THEN q
        ELSE IF c > 50 \/ m[2] > 0 THEN q + 1
        ELSE IF q % 2 = 0 THEN q ELSE q + 1

-----------------------------------------------------------------------------
(* Sizing: src/src/position_manager.py *)

\* Prices are counted in cents in the scan cycle.  An operator whose name
\* ends in _at takes the price unit as its first argument: u units to the
\* cent, so that a sure share costs 100 * u and u = 10 is the tick of 0.001.

\* f_star of kelly_size for p in 1/100 of the price unit, as <<Q, R, D>> with
\* f_star = (Q + R / D) / (1 - FEE_RATE) and 0 <= R < D, formed without
\* multiplying out: f_star = (b * p - q) / b with b = (1 - e)(1 - FEE_RATE) / e
\* is (p(1 - e)(1 - FEE_RATE) - q e) / ((1 - e)(1 - FEE_RATE)).
\* f_star <= 0 is Q < 0 or Q = R = 0.
kelly_f_star(u, p, entry_price) ==
    LET pw == p * (100 * u - entry_price)
        qe == (10000 * u - p) * entry_price
        D == 10000 * u * (100 * u - entry_price)
        gain == IF pw > qe THEN MulDivMod(1000, pw - qe, D) ELSE <<-1, 0>>
        fee == <<(FEE_RATE * pw) \div D, (FEE_RATE * pw) % D>>
    IN  IF gain[2] >= fee[2]
        THEN <<gain[1] - fee[1], gain[2] - fee[2], D>>
        ELSE <<gain[1] - fee[1] - 1, gain[2] - fee[2] + D, D>>

\* kelly_size from the blended probability p on: Half Kelly, the cap at
\* MAX_POSITION_PCT, round(bankroll * f_capped, 2) in cents
kelly_size_of(u, p, entry_price, bank) ==
    LET f == kelly_f_star(u, p, entry_price)
        f_half == KELLY_FRACTION * f[1] + MulDivMod(KELLY_FRACTION, f[2], f[3])[1]
        m == MulDivMod(bank * KELLY_FRACTION, f[2], f[3])
        whole == bank * KELLY_FRACTION * f[1] + m[1]
        q == whole \div (100 * (1000 - FEE_RATE))
        c == whole % (100 * (1000 - FEE_RATE))
    IN  IF 10 * entry_price <= u \/ entry_price >= 100 * u THEN 0
        ELSE IF f[1] < 0 \/ (f[1] = 0 /\ f[2] = 0) THEN 0
        ELSE IF f_half >= MAX_POSITION_PCT * (1000 - FEE_RATE)
             THEN RoundHalfEven(bank * MAX_POSITION_PCT, 100)
        ELSE IF 2 * c < 100 * (1000 - FEE_RATE) THEN q
        ELSE IF 2 * c > 100 * (1000 - FEE_RATE) \/ m[2] > 0 THEN q + 1
        ELSE IF q % 2 = 0 THEN q ELSE q + 1

\* the mutant of kelly_size_at: p is not clamped to [0.01, 0.99]
kelly_size_at_unclamped(u, ai_probability, entry_price, confidence, bank) ==
    kelly_size_of(u, 100 * entry_price
                       + (ai_probability - entry_price)
                            * Max(50, Min(100, confidence)),
                  entry_price, bank)

\* kelly_size for prices in the unit u: the cost in cents of a Half-Kelly
\* bet on the probability blended towards the entry price and clamped
kelly_size_at(u, ai_probability, entry_price, confidence, bank) ==
    LET blend_factor == Max(50, Min(100, confidence))
        p == Max(100 * u, Min(9900 * u, 100 * entry_price
                                  + (ai_probability - entry_price) * blend_factor))
    IN  kelly_size_of(u, p, entry_price, bank)

\* open_position on an empty book, for prices in the unit u: the cost of the
\* position it creates, 0 when it returns None
open_position_cost(u, entry_price, ai_probability, confidence, bank) ==
    LET kelly_cost == kelly_size_at(u, ai_probability, entry_price,
                                    confidence, bank)
        max_remaining == (bank * MAX_TOTAL_EXPOSURE_PCT) \div 100
        allowed_cost == Min(kelly_cost, Max(0, max_remaining))
        shares == IF entry_price > 0 THEN (allowed_cost * u) \div entry_price
                  ELSE 0
    IN  IF kelly_cost < MIN_COST THEN 0
        ELSE IF allowed_cost < MIN_COST THEN 0
        ELSE IF shares < MIN_SHARES THEN 0
        ELSE RoundHalfEven(shares * entry_price, u)

\* the mutant of kelly_size: the cap at MAX_POSITION_PCT is forgotten
kelly_size_nocap(ai_probability, entry_price, confidence, bank) ==
    LET blend_factor == Max(50, Min(100, confidence))
        p == Max(100, Min(9900, 100 * entry_price
                                  + (ai_probability - entry_price) * blend_factor))
        num == p * (100 - entry_price) * (1000 - FEE_RATE)
                 - (10000 - p) * entry_price * 1000
        den == 10000 * (100 - entry_price) * (1000 - FEE_RATE)
    IN  IF entry_price <= 0 \/ entry_price >= 100 THEN 0
        ELSE IF num <= 0 THEN 0
        ELSE RoundMulDiv100(bank * KELLY_FRACTION, num, den)

\* kelly_size on the cent grid
kelly_size(ai_probability, entry_price, confidence, bank) ==
    kelly_size_at(1, ai_probability, entry_price, confidence, bank)

-----------------------------------------------------------------------------
(* Positions of the paper book: src/src/position_manager.py, class Position *)

NoPos == [status |-> "none"]

SumCost(S) ==
    LET RECURSIVE Sum(_)
        Sum(T) == IF T = {} THEN 0
                  ELSE LET x == CHOOSE y \in T : TRUE
                       IN  x.cost + Sum(T \ {x})
    IN  Sum(S)

SeqToSet(s) == {s[i] : i \in 1..Len(s)}

\* the mutant of tp_ratio_for: one ratio for every confidence
tp_ratio_for_untiered(confidence) == BASE_TP_RATIO

\* the take-profit ratio of open_position, by confidence tier
tp_ratio_for(confidence) ==
    IF confidence >= 75 THEN HIGH_CONF_TP_RATIO
    ELSE IF confidence <= 55 THEN LOW_CONF_TP_RATIO
    ELSE BASE_TP_RATIO

\* the stop ratio of open_position, by the bet's share of the bankroll
sl_ratio_for(cost, bank) ==
    IF 100 * cost <= 3 * bank THEN WIDE_SL_RATIO
    ELSE IF 100 * cost >= 10 * bank THEN TIGHT_SL_RATIO
    ELSE BASE_SL_RATIO

\* the mutant of duplicate_market: the check is forgotten
duplicate_market_never(open_positions, market_id) == FALSE

\* "No duplicate market": an open position on the market exists already
duplicate_market(open_positions, market_id) ==
    \E p \in open_positions : p.market_id = market_id

\* the mutant of exposure_cap: the remaining budget is ignored
exposure_cap_ignored(kelly_cost, bank, total_invested) == kelly_cost

\* "Apply total exposure cap": the cost allowed by the remaining budget
exposure_cap(kelly_cost, bank, total_invested) ==
    LET max_remaining == (bank * MAX_TOTAL_EXPOSURE_PCT) \div 100 - total_invested
    IN  Min(kelly_cost, Max(0, max_remaining))

\* open_position: the Position it appends to the book, or NoPos when it
\* returns None.  positions is the list read from positions.json.
open_position(positions, id, market_id, direction, entry_price, ai_probability, bank, confidence, t) ==
    LET open_positions == {p \in SeqToSet(positions) : p.status = "open"}
        closed_same == {p \in SeqToSet(positions) :
                           /\ p.market_id = market_id
                           /\ p.status = "closed"
                           /\ p.exit_time # None}
        kelly_cost == kelly_size(ai_probability, entry_price, confidence, bank)
        total_invested == SumCost(open_positions)
        allowed_cost == exposure_cap(kelly_cost, bank, total_invested)
        shares == IF entry_price > 0 THEN allowed_cost \div entry_price ELSE 0
        cost == shares * entry_price
    IN  IF Cardinality(open_positions) >= MAX_OPEN_POSITIONS THEN NoPos
        ELSE IF duplicate_market(open_positions, market_id) THEN NoPos
        ELSE IF \E cp \in closed_same :
                   t - cp.exit_time < COOLDOWN_HOURS * TicksPerHour THEN NoPos
        ELSE IF kelly_cost < MIN_COST THEN NoPos
        ELSE IF allowed_cost < MIN_COST THEN NoPos
        ELSE IF shares < MIN_SHARES THEN NoPos
        ELSE [id |-> id, market_id |-> market_id, direction |-> direction,
              entry_price |-> entry_price, shares |-> shares, cost |-> cost,
              target_price |-> 100 * entry_price
                  + (ai_probability - entry_price) * tp_ratio_for(confidence),
              stop_loss |-> entry_price * sl_ratio_for(cost, bank),
              entry_time |-> t, status |-> "open", exit_price |-> None,
              exit_time |-> None, exit_reason |-> "", pnl |-> None,
              confidence |-> confidence, peak_price |-> entry_price]

-----------------------------------------------------------------------------
(* The strategy arena: src/src/strategy_arena.py *)

cfg_signal_cooldown_hours == 4
MIN_ENTRY_PRICE == 3

\* STRATEGIES: the predefined variants the model runs, in dictionary order
StrategyOrder == <<"baseline", "aggressive", "sniper">>
StrategyNames == SeqToSet(StrategyOrder)

STRATEGIES ==
    [n \in StrategyNames |->
        IF n = "baseline"
        THEN [name |-> "baseline", kelly_fraction |-> 50, ai_discount |-> 50,
              min_edge |-> 2, max_position_pct |-> 15, tp_ratio |-> 70,
              sl_ratio |-> 75, trailing_stop |-> TRUE,
              trailing_activation |-> 50, trailing_distance |-> 30,
              timeout_hours |-> 24, max_open_positions |-> 8,
              min_confidence |-> 0, correlated_limit_pct |-> 35]
        ELSE IF n = "aggressive"
        THEN [name |-> "aggressive", kelly_fraction |-> 75, ai_discount |-> 70,
              min_edge |-> 1, max_position_pct |-> 15, tp_ratio |-> 85,
              sl_ratio |-> 65, trailing_stop |-> TRUE,
              trailing_activation |-> 50, trailing_distance |-> 30,
              timeout_hours |-> 24, max_open_positions |-> 12,
              min_confidence |-> 0, correlated_limit_pct |-> 35]
        ELSE [name |-> "sniper", kelly_fraction |-> 50, ai_discount |-> 50,
              min_edge |-> 6, max_position_pct |-> 15, tp_ratio |-> 50,
              sl_ratio |-> 82, trailing_stop |-> FALSE,
              trailing_activation |-> 50, trailing_distance |-> 30,
              timeout_hours |-> 6, max_open_positions |-> 4,
              min_confidence |-> 60, correlated_limit_pct |-> 35]]

\* StrategyRunner.kelly_size for prices in the unit u: f_star = n / d, capped,
\* times kelly_fraction; p is counted in 1/10000 of the unit
StrategyRunner_kelly_size_at(u, config, bank, ai_prob, entry_price, confidence) ==
    LET blend_factor == config.ai_discount * Max(50, Min(100, confidence))
        p == Max(10000 * u, Min(990000 * u, 10000 * entry_price
                                      + (ai_prob - entry_price) * blend_factor))
        n == p - 10000 * entry_price
        d == 10000 * (100 * u - entry_price)
    IN  IF 10 * entry_price <= u \/ entry_price >= 100 * u THEN 0
        ELSE IF n <= 0 THEN 0
        ELSE IF 100 * n >= config.max_position_pct * d
             THEN RoundHalfEven(bank * config.max_position_pct
                                     * config.kelly_fraction, 10000)
             ELSE RoundMulDiv100(bank * config.kelly_fraction, n, d)

\* StrategyRunner.kelly_size on the cent grid
StrategyRunner_kelly_size(config, bank, ai_prob, entry_price, confidence) ==
    StrategyRunner_kelly_size_at(1, config, bank, ai_prob, entry_price, confidence)

\* StrategyRunner.try_open on an empty book, for prices in the unit u: the
\* cost of the position it creates, 0 when it returns None
try_open_cost(u, config, bank, entry_price, ai_prob, confidence) ==
    LET kelly_cost == StrategyRunner_kelly_size_at(u, config, bank, ai_prob,
                                                   entry_price, confidence)
        capped == Min(kelly_cost, bank)
        shares == IF entry_price > 0 THEN (capped * u) \div entry_price ELSE 0
    IN  IF entry_price < MIN_ENTRY_PRICE * u THEN 0
        ELSE IF confidence < config.min_confidence THEN 0
        ELSE IF kelly_cost < MIN_COST THEN 0
        ELSE IF capped < MIN_COST THEN 0
        ELSE IF shares < MIN_SHARES THEN 0
        ELSE RoundHalfEven(shares * entry_price, u)

\* the markets of the model and the keyword families of their questions
Markets == {"m1", "m2"}

CORRELATION_KEYWORDS == {"btc", "eth", "trump"}

\* the keyword families a market's question matches: m1 and b1..b4 mention
\* bitcoin, t1 mentions trump, bt mentions both, the others none
QuestionFamilies(market_id) ==
    IF market_id \in {"m1", "b1", "b2", "b3", "b4"} THEN {"btc"}
    ELSE IF market_id = "bt" THEN {"btc", "trump"}
    ELSE IF market_id = "t1" THEN {"trump"}
    ELSE {}

\* ticks in a day: the position id of try_open carries the time of day only
TicksPerDay == 24 * TicksPerHour

\* pos_id of try_open: f"{market_id[:8]}_{now:%H%M%S}"
pos_id(market_id, t) == <<market_id, t % TicksPerDay>>

\* get_positions(mode = "arena", strategy = name): the rows of one namespace
get_positions(rows, mode, strategy) ==
    {rows[i] : i \in {j \in DOMAIN rows :
                        /\ rows[j].mode = mode
                        /\ (strategy # "" => rows[j].strategy = strategy)}}

\* get_trades(mode = "arena", strategy = name)
get_trades(trs, mode, strategy) ==
    {trs[i] : i \in {j \in 1..Len(trs) :
                        /\ trs[j].mode = mode
                        /\ (strategy # "" => trs[j].strategy = strategy)}}

\* the mutant of correlated_blocked: the cost of every open position counts,
\* whatever its family
correlated_blocked_any_family(config, bank, open_pos, market_id) ==
    \E kw \in CORRELATION_KEYWORDS :
        /\ kw \in QuestionFamilies(market_id)
        /\ 100 * SumCost(open_pos) >= bank * config.correlated_limit_pct

\* the correlated-exposure check of try_open: TRUE when the entry is blocked
correlated_blocked(config, bank, open_pos, market_id) ==
    \E kw \in CORRELATION_KEYWORDS :
        /\ kw \in QuestionFamilies(market_id)
        /\ 100 * SumCost({p \in open_pos : kw \in QuestionFamilies(p.market_id)})
              >= bank * config.correlated_limit_pct

\* StrategyRunner.try_open: the row it upserts, or NoPos when it returns None
try_open(config, bank, rows, trs, market_id, direction, entry_price, ai_prob, confidence, t) ==
    LET positions == get_positions(rows, "arena", config.name)
        open_pos == {p \in positions : p.status = "open"}
        hist == get_trades(trs, "arena", config.name)
        recent_closes == {h \in hist :
                            /\ h.market_id = market_id
                            /\ h.exit_time # None
                            /\ t - h.exit_time < cfg_signal_cooldown_hours * TicksPerHour}
        kelly_cost == StrategyRunner_kelly_size(config, bank, ai_prob,
                                                entry_price, confidence)
        total == SumCost(open_pos)
        capped == Min(kelly_cost, bank - total)
        shares == IF entry_price > 0 THEN capped \div entry_price ELSE 0
        cost == shares * entry_price
    IN  IF entry_price < MIN_ENTRY_PRICE THEN NoPos
        ELSE IF Cardinality(open_pos) >= config.max_open_positions THEN NoPos
        ELSE IF duplicate_market(open_pos, market_id) THEN NoPos
        ELSE IF recent_closes # {} THEN NoPos
        ELSE IF confidence < config.min_confidence THEN NoPos
        ELSE IF correlated_blocked(config, bank, open_pos, market_id) THEN NoPos
        ELSE IF kelly_cost < MIN_COST THEN NoPos
        ELSE IF capped < MIN_COST THEN NoPos
        ELSE IF shares < MIN_SHARES THEN NoPos
        ELSE [id |-> pos_id(market_id, t), mode |-> "arena",
              strategy |-> config.name, market_id |-> market_id,
              direction |-> direction, entry_price |-> entry_price,
              shares |-> shares, filled_shares |-> shares, cost |-> cost,
              target_price |-> 100 * entry_price
                  + Abs(ai_prob - entry_price) * config.tp_ratio,
              stop_loss |-> entry_price * config.sl_ratio,
              confidence |-> confidence, status |-> "open", order_id |-> "",
              entry_time |-> t, exit_price |-> None, exit_time |-> None,
              exit_reason |-> "", pnl |-> None, peak_price |-> entry_price]

\* upsert_position: INSERT ... ON CONFLICT(id) DO UPDATE SET every column
upsert_position(rows, pos) ==
    [i \in DOMAIN rows \cup {pos.id} |-> IF i = pos.id THEN pos ELSE rows[i]]

-----------------------------------------------------------------------------
(* Exits *)

\* the price a fetch returns when the market cannot be read
NoPrice == -1

\* the observed prices of the model: YES prices in cents
YesPrices == {20, 35, 40, 58, 70}

\* "Current price depends on direction"
current_price(direction, yes_price) ==
    IF direction = "BUY_YES" THEN yes_price ELSE 100 - yes_price

\* the mutant of updated_peak: the peak follows the last price
updated_peak_last_price(pos, current) == current

\* "Update peak price": the peak after the price is seen
updated_peak(pos, current) ==
    LET peak == IF pos.peak_price = None THEN pos.entry_price ELSE pos.peak_price
    IN  IF current > peak THEN current ELSE peak

\* the mutant of trailing_active: the trailing stop never activates
trailing_active_never(pos, peak, activation) == FALSE

\* the trailing stop is active: progress >= activation
trailing_active(pos, peak, activation) ==
    LET target_move == pos.target_price - 100 * pos.entry_price
    IN  /\ target_move > 0
        /\ 10000 * (peak - pos.entry_price) >= activation * target_move

\* the mutant of effective_trail: the stop-loss floor is dropped
effective_trail_no_floor(pos, peak, distance) == peak * (100 - distance)

\* max(trail_stop, stop_loss) in 1/10000, with trail_stop = peak * (1 - distance)
effective_trail(pos, peak, distance) ==
    Max(peak * (100 - distance), pos.stop_loss)

\* f"TRAILING_STOP(peak={peak:.1%},locked=${profit_locked:+.1f})": the reason
\* the primary book records is the tag followed by the figures of the exit
TRAILING_STOP_WITH_DETAILS == "TRAILING_STOP(peak,locked)"

\* the mutant of check_exits_reason: the timeout is checked first
check_exits_reason_timeout_first(pos, current, peak, t) ==
    IF t - pos.entry_time > TIMEOUT_HOURS * TicksPerHour THEN "TIMEOUT_AGED"
    ELSE IF 100 * current >= pos.target_price THEN "TAKE_PROFIT"
    ELSE IF 100 * current <= pos.stop_loss THEN "STOP_LOSS"
    ELSE ""

\* the exit checks of check_exits in the order of the code: the reason of
\* the first check that fires, or "" when the position stays open
check_exits_reason(pos, current, peak, t) ==
    LET age == t - pos.entry_time
    IN  IF 100 * current >= pos.target_price THEN "TAKE_PROFIT"
        ELSE IF 100 * current <= pos.stop_loss THEN "STOP_LOSS"
        ELSE IF /\ trailing_active(pos, peak, TRAILING_STOP_ACTIVATION)
                /\ 100 * current <= effective_trail(pos, peak, TRAILING_STOP_DISTANCE)
             THEN TRAILING_STOP_WITH_DETAILS
        ELSE IF /\ age > TIGHTEN_AFTER_HOURS * TicksPerHour
                /\ age <= 24 * TicksPerHour
                /\ 200 * current <= pos.stop_loss + 100 * pos.entry_price
             THEN "TIME_TIGHTENED_STOP"
        ELSE IF age > TIMEOUT_HOURS * TicksPerHour
             THEN IF Abs(current - pos.entry_price) < TIMEOUT_MOVE_THRESHOLD
                  THEN "TIMEOUT_FLAT" ELSE "TIMEOUT_AGED"
        ELSE ""

\* the pnl of a close, in cents
close_pnl(direction, entry_price, exit_price, shares) ==
    IF direction = "BUY_YES"
    THEN (exit_price - entry_price) * shares
    ELSE (entry_price - exit_price) * shares

\* the mutant of close_position: the close moves the stop to the exit price
close_position_moves_stop(pos, exit_price, reason, t) ==
    [pos EXCEPT !.status = "closed", !.exit_price = exit_price,
                !.exit_time = t, !.exit_reason = reason,
                !.stop_loss = 100 * exit_price,
                !.pnl = close_pnl(pos.direction, pos.entry_price,
                                  exit_price, pos.shares)]

\* _close_position: the position with its exit recorded
close_position(pos, exit_price, reason, t) ==
    [pos EXCEPT !.status = "closed", !.exit_price = exit_price,
                !.exit_time = t, !.exit_reason = reason,
                !.pnl = close_pnl(pos.direction, pos.entry_price,
                                  exit_price, pos.shares)]

\* one iteration of the loop of check_exits over an open position
check_exits_one(pos, yes_price, t) ==
    IF yes_price = NoPrice THEN pos
    ELSE LET current == current_price(pos.direction, yes_price)
             peak == updated_peak(pos, current)
             seen == [pos EXCEPT !.peak_price = peak]
             reason == check_exits_reason(seen, current, peak, t)
         IN  IF reason # "" THEN close_position(seen, current, reason, t)
             ELSE seen

\* the exit checks of StrategyRunner.check_exits in the order of the code
StrategyRunner_reason(config, pos, current, peak, t) ==
    IF 100 * current >= pos.target_price THEN "TAKE_PROFIT"
    ELSE IF 100 * current <= pos.stop_loss THEN "STOP_LOSS"
    ELSE IF /\ config.trailing_stop
            /\ trailing_active(pos, peak, config.trailing_activation)
            /\ 100 * current <= effective_trail(pos, peak, config.trailing_distance)
         THEN "TRAILING_STOP"
    ELSE IF t - pos.entry_time > config.timeout_hours * TicksPerHour
         THEN "TIMEOUT"
    ELSE ""

\* the close of StrategyRunner.check_exits: the row with its exit recorded
StrategyRunner_close(pos, current, reason, t) ==
    LET pnl == IF pos.direction = "BUY_YES"
               THEN (current - pos.entry_price) * pos.shares
               ELSE (pos.entry_price - current) * pos.shares
    IN  [pos EXCEPT !.status = "closed", !.exit_price = current,
                    !.exit_time = t, !.exit_reason = reason, !.pnl = pnl]

\* one iteration of the loop of StrategyRunner.check_exits: the row upserted
StrategyRunner_check_one(config, pos, yes_price, t) ==
    IF yes_price = NoPrice \/ yes_price <= 0 THEN pos
    ELSE LET current == current_price(pos.direction, yes_price)
             peak == updated_peak(pos, current)
             seen == [pos EXCEPT !.peak_price = peak]
             reason == StrategyRunner_reason(config, seen, current, peak, t)
         IN  IF current <= 0 THEN pos
             ELSE IF reason # "" THEN StrategyRunner_close(seen, current, reason, t)
             ELSE seen

-----------------------------------------------------------------------------
(* Signals: src/src/edge_calculator.py *)

MIN_EDGE_ARG == 3
cfg_min_edge_threshold == 2
cfg_max_kelly_fraction == 10
cfg_min_shares == 5

\* The operators of this section take the price unit u as their first
\* argument, as kelly_size_at does.

\* estimate_fee of a market without taker fee, in 1/(10^7 u^2): the spread
\* cost 0.003 * 2 * p * (1 - p)
estimate_fee(u, price) == 3 * 2 * price * (100 * u - price)

\* "Current price depends on direction", for the price unit u
side_price(u, direction, yes_price) ==
    IF direction = "BUY_YES" THEN yes_price ELSE 100 * u - yes_price

\* hours_to_expiry of the market of an estimate, in whole hours (0 is less
\* than one hour); None when the estimate carries no end date
hours_to_expiry(est) ==
    IF "hours_left" \in DOMAIN est THEN est.hours_left ELSE None

\* ai_prob of calculate_edge, in tenths of the price unit: shrunk by 30%
\* towards the market price when the market is more than 30 days from expiry
edge_ai_prob(est) ==
    IF hours_to_expiry(est) # None /\ hours_to_expiry(est) > 720
    THEN 10 * est.current_price + 7 * (est.ai_probability - est.current_price)
    ELSE 10 * est.ai_probability

\* the mutant of edge_min_edge: the requirement is the same at every distance
\* from expiry
edge_min_edge_not_raised(est, min_edge) ==
    IF min_edge = None THEN cfg_min_edge_threshold ELSE min_edge

\* min_edge of calculate_edge, in cents: cfg.min_edge_threshold when the
\* argument is None, and at least 0.05 under six hours to expiry
edge_min_edge(est, min_edge) ==
    LET given == IF min_edge = None THEN cfg_min_edge_threshold ELSE min_edge
    IN  IF hours_to_expiry(est) # None /\ hours_to_expiry(est) < 6
        THEN Max(given, 5) ELSE given

\* the fee-adjusted edges of the two sides, in 1/(10^7 u^2)
fee_adjusted_yes(u, est) ==
    (edge_ai_prob(est) - 10 * est.current_price) * 10000 * u
        - estimate_fee(u, est.current_price)

fee_adjusted_no(u, est) ==
    (10 * est.current_price - edge_ai_prob(est)) * 10000 * u
        - estimate_fee(u, 100 * u - est.current_price)

\* the mutant of edge_direction: the edges are compared before fees
edge_direction_before_fees(u, est, min_edge) ==
    IF 10 * est.ai_probability > 10 * est.current_price
          /\ (edge_ai_prob(est) - 10 * est.current_price) * 10000 * u
                >= edge_min_edge(est, min_edge) * 100000 * u * u
    THEN "BUY_YES"
    ELSE IF (10 * est.current_price - edge_ai_prob(est)) * 10000 * u
               >= edge_min_edge(est, min_edge) * 100000 * u * u
         THEN "BUY_NO"
         ELSE "none"

\* the side calculate_edge chooses, "none" when no side clears min_edge
edge_direction(u, est, min_edge) ==
    IF fee_adjusted_yes(u, est) > fee_adjusted_no(u, est)
          /\ fee_adjusted_yes(u, est)
                >= edge_min_edge(est, min_edge) * 100000 * u * u
    THEN "BUY_YES"
    ELSE IF fee_adjusted_no(u, est)
               >= edge_min_edge(est, min_edge) * 100000 * u * u
         THEN "BUY_NO"
         ELSE "none"

\* the mutant of edge_kelly: the Kelly fraction is not clamped
edge_kelly_unclamped(u, p, entry_price) ==
    IF entry_price >= 100 * u THEN <<0, 1>>
    ELSE <<Max(0, p - 10 * entry_price), 1000 * u - 10 * entry_price>>

\* kelly = max(0, min((b * p - q) / b, cfg.max_kelly_fraction)) for p in
\* tenths of the price unit, as the fraction <<numerator, denominator>>;
\* (b * p - q) / b is (p - entry_price) / (1 - entry_price)
edge_kelly(u, p, entry_price) ==
    IF entry_price >= 100 * u \/ p <= 10 * entry_price THEN <<0, 1>>
    ELSE IF 100 * (p - 10 * entry_price)
               >= cfg_max_kelly_fraction * (1000 * u - 10 * entry_price)
         THEN <<cfg_max_kelly_fraction, 100>>
         ELSE <<p - 10 * entry_price, 1000 * u - 10 * entry_price>>

\* kelly_fraction of the TradeSignal: round(kelly * confidence, 4), in 1/10000
edge_kelly_fraction(u, p, entry_price, confidence) ==
    RoundHalfEven(100 * confidence * edge_kelly(u, p, entry_price)[1],
                  edge_kelly(u, p, entry_price)[2])

\* position_size of calculate_edge: round(bankroll * kelly, 2), in cents
edge_position_size(u, bank, p, entry_price, confidence) ==
    RoundMulDiv100(bank * confidence, edge_kelly(u, p, entry_price)[1],
                   edge_kelly(u, p, entry_price)[2])

NoSignal == [direction |-> "none"]

\* the reason calculate_edge passes to _log_filtered before it returns None,
\* "" when it returns a TradeSignal
filter_reason(u, est, bank, min_edge) ==
    LET direction == edge_direction(u, est, min_edge)
        edge == IF direction = "BUY_YES" THEN fee_adjusted_yes(u, est)
                ELSE fee_adjusted_no(u, est)
        entry_price == side_price(u, direction, est.current_price)
        p == IF direction = "BUY_YES" THEN edge_ai_prob(est)
             ELSE 1000 * u - edge_ai_prob(est)
        position_size == edge_position_size(u, bank, p, entry_price,
                                            est.confidence)
        expected_shares == IF position_size > 0 /\ entry_price > 0
                           THEN (position_size * u) \div entry_price ELSE 0
    IN  IF hours_to_expiry(est) # None /\ hours_to_expiry(est) < 1
        THEN "expiring_<1h"
        ELSE IF direction = "none" THEN "edge_below_threshold"
        ELSE IF entry_price < MIN_ENTRY_PRICE * u THEN "lottery_ticket"
        ELSE IF 10 * entry_price >= 999 * u THEN "price_too_high"
        ELSE IF edge > 40 * 100000 * u * u THEN "absurd_edge"
        ELSE IF est.current_price < 10 * u /\ edge_ai_prob(est) > 350 * u
             THEN "extreme_low_price_mismatch"
        ELSE IF est.current_price > 90 * u /\ edge_ai_prob(est) < 650 * u
             THEN "extreme_high_price_mismatch"
        ELSE IF expected_shares < cfg_min_shares THEN "too_few_shares"
        ELSE ""

\* calculate_edge for prices in the unit u: the TradeSignal, or NoSignal
\* when the estimate is filtered
calculate_edge_at(u, est, bank, min_edge) ==
    LET direction == edge_direction(u, est, min_edge)
        edge == IF direction = "BUY_YES" THEN fee_adjusted_yes(u, est)
                ELSE fee_adjusted_no(u, est)
        entry_price == side_price(u, direction, est.current_price)
        p == IF direction = "BUY_YES" THEN edge_ai_prob(est)
             ELSE 1000 * u - edge_ai_prob(est)
    IN  IF filter_reason(u, est, bank, min_edge) # "" THEN NoSignal
        ELSE [market_id |-> est.market_id, direction |-> direction,
              current_price |-> est.current_price,
              ai_probability |-> est.ai_probability,
              confidence |-> est.confidence,
              edge |-> RoundHalfEven(edge, 1000 * u * u),
              kelly_fraction |-> edge_kelly_fraction(u, p, entry_price,
                                                     est.confidence),
              position_size |-> edge_position_size(u, bank, p, entry_price,
                                                   est.confidence)]

\* calculate_edge on the cent grid
calculate_edge(est, bank, min_edge) == calculate_edge_at(1, est, bank, min_edge)

\* entries[-_MAX_FILTERED_ENTRIES:]
MAX_FILTERED_ENTRIES == 500

\* _log_filtered: the entry is appended to filtered_signals.json and the
\* last 500 entries are kept
log_filtered(log, est, reason) ==
    LET entries == Append(log, [market_id |-> est.market_id,
                                ai_probability |-> est.ai_probability,
                                market_price |-> est.current_price,
                                confidence |-> est.confidence,
                                reason |-> reason])
    IN  SubSeq(entries, Max(1, Len(entries) - MAX_FILTERED_ENTRIES + 1),
               Len(entries))

\* list.sort(key = edge, reverse = True): stable, largest edge first
RECURSIVE sort_by_edge(_)
sort_by_edge(s) ==
    IF s = <<>> THEN <<>>
    ELSE LET x == s[Len(s)]
             front == sort_by_edge(SubSeq(s, 1, Len(s) - 1))
             k == Cardinality({i \in 1..Len(front) : front[i].edge >= x.edge})
         IN  SubSeq(front, 1, k) \o <<x>> \o SubSeq(front, k + 1, Len(front))

\* find_edges: the signals of the estimates, sorted by edge
RECURSIVE find_edges_from(_, _, _)
find_edges_from(estimates, bank, min_edge) ==
    IF estimates = <<>> THEN <<>>
    ELSE LET sig == calculate_edge(Head(estimates), bank, min_edge)
             rest == find_edges_from(Tail(estimates), bank, min_edge)
         IN  IF sig = NoSignal THEN rest ELSE <<sig>> \o rest

find_edges(estimates, bank, min_edge) ==
    sort_by_edge(find_edges_from(estimates, bank, min_edge))

\* filtered_signals.json after find_edges: one entry for each estimate
\* calculate_edge returned None for, in the order of the estimates
RECURSIVE find_edges_log(_, _, _, _)
find_edges_log(log, estimates, bank, min_edge) ==
    IF estimates = <<>> THEN log
    ELSE LET r == filter_reason(1, Head(estimates), bank, min_edge)
         IN  find_edges_log(IF r = "" THEN log
                            ELSE log_filtered(log, Head(estimates), r),
                            Tail(estimates), bank, min_edge)

-----------------------------------------------------------------------------
(* Signal dedup: src/src/scanner.py *)

SIGNAL_COOLDOWN_HOURS == 4
MAX_ALERTS_PER_HOUR == 5

cooldown_key(sig) == <<sig.market_id, sig.direction>>

\* the loop of dedup_signals: <<fresh signals, cooldown table>>
RECURSIVE dedup_loop(_, _, _, _)
dedup_loop(sigs, fresh, cd, t) ==
    IF sigs = <<>> THEN <<fresh, cd>>
    ELSE LET sig == Head(sigs)
             key == cooldown_key(sig)
         IN  IF key \in DOMAIN cd /\ t - cd[key] < SIGNAL_COOLDOWN_HOURS * TicksPerHour
             THEN dedup_loop(Tail(sigs), fresh, cd, t)
             ELSE dedup_loop(Tail(sigs), Append(fresh, sig),
                             [k \in DOMAIN cd \cup {key} |->
                                 IF k = key THEN t ELSE cd[k]], t)

\* prune_cooldowns: entries older than 24 hours are deleted
prune_cooldowns(cd, t) ==
    [k \in {x \in DOMAIN cd : ~(cd[x] < t - 24 * TicksPerHour)} |-> cd[k]]

\* dedup_signals: <<fresh signals, cooldown table>>
dedup_signals(sigs, cd, t) ==
    LET r == dedup_loop(sigs, <<>>, cd, t)
        fresh == IF Len(r[1]) > MAX_ALERTS_PER_HOUR
                 THEN SubSeq(sort_by_edge(r[1]), 1, MAX_ALERTS_PER_HOUR)
                 ELSE r[1]
    IN  <<fresh, prune_cooldowns(r[2], t)>>

-----------------------------------------------------------------------------
(* The scan cycle: src/src/scanner.py, run_scan *)

\* the estimates a cycle may produce
EstimateSet ==
    { [market_id |-> "m1", current_price |-> 40, ai_probability |-> 70, confidence |-> 80],
      [market_id |-> "m1", current_price |-> 60, ai_probability |-> 30, confidence |-> 80],
      [market_id |-> "m2", current_price |-> 40, ai_probability |-> 70, confidence |-> 50] }

Batches == UNION {[1..n -> EstimateSet] : n \in 0..MaxBatch}

Bankrolls == {100000}

\* the gaps between two cycles, in ticks
SleepSteps == {1, TIGHTEN_AFTER_HOURS * TicksPerHour + 1, TicksPerDay, TicksPerDay + 1}

\* the fields of Config the position limits read, with their defaults
DefaultConfig ==
    [max_positions |-> 4, cooldown_hours |-> 1, timeout_hours |-> 24,
     strategy_overrides |-> {}]

\* run_arena: the copy of a strategy's parameters with the overrides of
\* cfg.strategy_overrides set on it, an override being <<strategy, key, value>>;
\* a key the StrategyConfig does not have is skipped
run_config(c, name) ==
    [k \in DOMAIN STRATEGIES[name] |->
        IF \E o \in c.strategy_overrides : o[1] = name /\ o[2] = k
        THEN (CHOOSE o \in c.strategy_overrides : o[1] = name /\ o[2] = k)[3]
        ELSE STRATEGIES[name][k]]

\* the monitor loop has not been started
MonitorOff == [pc |-> "off"]

\* the stores are empty and nothing has run yet
InitStores ==
    /\ now = 0
    /\ phase = "idle"
    /\ cycles = 0
    /\ bankroll \in Bankrolls
    /\ batch = <<>>
    /\ signals = <<>>
    /\ cooldowns = <<>>
    /\ cursor = <<1, 1>>
    /\ paper = <<>>
    /\ history = <<>>
    /\ db = <<>>
    /\ trades = <<>>
    /\ prices = <<>>
    /\ last = [op |-> "init", ns |-> ""]
    /\ sz = [op |-> "none"]
    /\ filtered = <<>>

Init ==
    /\ InitStores
    /\ cfg = DefaultConfig
    /\ mon = MonitorOff

\* run_scan up to the position management: the estimates of the cycle are
\* computed, find_edges and dedup_signals select the fresh signals
StartCycle ==
    /\ UNCHANGED <<cfg, mon>>
    /\ phase = "idle"
    /\ \E b \in Batches :
          LET r == dedup_signals(find_edges(b, bankroll, MIN_EDGE_ARG), cooldowns, now)
          IN  /\ batch' = b
              /\ signals' = r[1]
              /\ cooldowns' = r[2]
              /\ filtered' = find_edges_log(filtered, b, bankroll, MIN_EDGE_ARG)
    /\ phase' = "signals"
    /\ cycles' = cycles + 1
    /\ cursor' = <<1, 1>>
    /\ last' = [op |-> "run_scan", ns |-> ""]
    /\ UNCHANGED <<now, bankroll, paper, history, db, trades, prices, sz>>

\* one iteration of "for sig in fresh_signals": open_position
PrimaryOpen ==
    /\ UNCHANGED <<cfg, mon, filtered>>
    /\ phase = "signals"
    /\ cursor[1] <= Len(signals)
    /\ LET sig == signals[cursor[1]]
           pos == open_position(paper, Len(paper) + 1, sig.market_id, sig.direction,
                                current_price(sig.direction, sig.current_price),
                                current_price(sig.direction, sig.ai_probability),
                                bankroll, sig.confidence, now)
       IN  paper' = IF pos # NoPos THEN Append(paper, pos) ELSE paper
    /\ cursor' = <<cursor[1] + 1, 1>>
    /\ last' = [op |-> "open_position", ns |-> "paper"]
    /\ UNCHANGED <<now, phase, cycles, bankroll, batch, signals, cooldowns,
                   history, db, trades, prices, sz>>

\* the markets of the open positions of a book
open_markets(S) == {p.market_id : p \in {q \in S : q.status = "open"}}

\* the prices the cycle may show after an exit check asked about markets ms:
\* a market keeps during a cycle the price its first fetch returned
PriceFetches(ms) ==
    {pf \in [DOMAIN prices \cup ms -> YesPrices \cup {NoPrice}] :
        \A m \in DOMAIN prices : pf[m] = prices[m]}

\* the positions an exit check closed, in the order of the list
RECURSIVE closed_by(_, _, _)
closed_by(before, after, i) ==
    IF i > Len(before) THEN <<>>
    ELSE (IF before[i].status = "open" /\ after[i].status = "closed"
          THEN <<after[i]>> ELSE <<>>) \o closed_by(before, after, i + 1)

\* check_exits of the primary book: every open position is checked against
\* one fetched price, closes are appended to the history, the list is saved
PrimaryExits ==
    /\ UNCHANGED <<cfg, mon, filtered>>
    /\ phase = "signals"
    /\ cursor[1] > Len(signals)
    /\ \E pf \in PriceFetches(open_markets(SeqToSet(paper))) :
          LET after == [i \in 1..Len(paper) |->
                           IF paper[i].status = "open"
                           THEN check_exits_one(paper[i], pf[paper[i].market_id], now)
                           ELSE paper[i]]
          IN  /\ paper' = after
              /\ history' = history \o closed_by(paper, after, 1)
              /\ prices' = pf
    /\ last' = [op |-> "check_exits", ns |-> "paper"]
    /\ phase' = "arena"
    /\ cursor' = <<1, 1>>
    /\ signals' = <<>>
    /\ UNCHANGED <<now, cycles, bankroll, batch, cooldowns, db, trades, sz>>

\* cfg.active_strategies of the run
active_strategies == {"baseline", "sniper"}

\* run_configs of run_arena: the active strategies, in dictionary order
run_configs == SelectSeq(StrategyOrder, LAMBDA n : n \in active_strategies)

\* the entry run_arena passes to try_open for an estimate with prices in
\* the unit u, NoSignal when it skips the estimate: the raw edge of the side
\* clears config.min_edge, the price is inside [0.001, 0.999], and outside
\* [0.01, 0.99] the edge is at least half the entry price
arena_signal_at(u, config, est) ==
    LET yes_edge == est.ai_probability - est.current_price
        no_edge == est.current_price - est.ai_probability
        direction == IF yes_edge > no_edge /\ yes_edge >= config.min_edge * u
                     THEN "BUY_YES"
                     ELSE IF no_edge >= config.min_edge * u THEN "BUY_NO"
                     ELSE "none"
        entry_price == side_price(u, direction, est.current_price)
        edge_used == IF direction = "BUY_YES" THEN yes_edge ELSE no_edge
    IN  IF direction = "none" THEN NoSignal
        ELSE IF 10 * entry_price < u \/ 10 * entry_price > 999 * u THEN NoSignal
        ELSE IF (entry_price < u \/ entry_price > 99 * u)
                   /\ 2 * edge_used < Max(2 * config.min_edge * u, entry_price)
             THEN NoSignal
        ELSE [market_id |-> est.market_id, direction |-> direction,
              entry_price |-> entry_price,
              ai_prob |-> side_price(u, direction, est.ai_probability),
              confidence |-> est.confidence, edge |-> edge_used]

\* the entry run_arena passes to try_open, on the cent grid
arena_signal(config, est) == arena_signal_at(1, config, est)

\* the loop "for est in estimates" of run_arena for one strategy: the rows
\* of the positions table after it
RECURSIVE run_arena_strategy(_, _, _, _, _, _)
run_arena_strategy(config, bank, rows, trs, estimates, t) ==
    IF estimates = <<>> THEN rows
    ELSE LET sig == arena_signal(config, Head(estimates))
             pos == IF sig = NoSignal THEN NoPos
                    ELSE try_open(config, bank, rows, trs, sig.market_id,
                                  sig.direction, sig.entry_price, sig.ai_prob,
                                  sig.confidence, t)
         IN  run_arena_strategy(config, bank,
                                IF pos # NoPos THEN upsert_position(rows, pos)
                                ELSE rows,
                                trs, Tail(estimates), t)

\* one iteration of "for name, config in run_configs.items()" of run_arena:
\* strategy i meets every estimate of the cycle
ArenaOpen ==
    /\ UNCHANGED <<cfg, mon, filtered>>
    /\ phase = "arena"
    /\ cursor[1] <= Len(run_configs)
    /\ LET name == run_configs[cursor[1]]
       IN  /\ db' = run_arena_strategy(run_config(cfg, name), bankroll, db,
                                       trades, batch, now)
           /\ last' = [op |-> "try_open", ns |-> name]
    /\ IF cursor[1] < Len(run_configs)
       THEN /\ cursor' = <<cursor[1] + 1, 1>>
            /\ UNCHANGED <<phase, batch>>
       ELSE /\ cursor' = <<1, 1>>
            /\ phase' = "arena_exits"
            /\ batch' = <<>>
    /\ UNCHANGED <<now, cycles, bankroll, signals, cooldowns,
                   paper, history, trades, prices, sz>>

\* ORDER BY created_at DESC over rows: the position of a row in the order
created_rank(row) == row.entry_time

\* the trade record StrategyRunner.check_exits inserts for a closed row
trade_of(row) ==
    [position_id |-> row.id, mode |-> "arena", strategy |-> row.strategy,
     market_id |-> row.market_id, direction |-> row.direction,
     entry_price |-> row.entry_price, exit_price |-> row.exit_price,
     shares |-> row.shares, cost |-> row.cost, pnl |-> row.pnl,
     entry_time |-> row.entry_time, exit_time |-> row.exit_time,
     exit_reason |-> row.exit_reason]

\* the trades of the rows of S that closed, newest row first
RECURSIVE trades_of(_)
trades_of(S) ==
    IF S = {} THEN <<>>
    ELSE LET r == CHOOSE x \in S : \A y \in S : created_rank(x) >= created_rank(y)
         IN  (IF r.status = "closed" THEN <<trade_of(r)>> ELSE <<>>)
                 \o trades_of(S \ {r})

\* the ids of the open rows of a strategy
open_ids(rows, name) ==
    {i \in DOMAIN rows : /\ rows[i].mode = "arena"
                         /\ rows[i].strategy = name
                         /\ rows[i].status = "open"}

\* the strategies check_arena_exits has still to visit that hold open rows;
\* for the others StrategyRunner.check_exits returns at once
pending_exits(rows, i) ==
    {j \in i..Len(StrategyOrder) : open_ids(rows, StrategyOrder[j]) # {}}

\* StrategyRunner.check_exits, called by check_arena_exits for the next
\* strategy that holds open rows
ArenaExits ==
    /\ UNCHANGED <<cfg, mon, filtered>>
    /\ phase = "arena_exits"
    /\ pending_exits(db, cursor[1]) # {}
    /\ LET i == CHOOSE j \in pending_exits(db, cursor[1]) :
                   \A k \in pending_exits(db, cursor[1]) : j <= k
           name == StrategyOrder[i]
           config == STRATEGIES[name]
           ids == open_ids(db, name)
       IN  /\ \E pf \in PriceFetches({db[j].market_id : j \in ids}) :
                 LET after == [j \in DOMAIN db |->
                                  IF j \in ids
                                  THEN StrategyRunner_check_one(config, db[j],
                                           pf[db[j].market_id], now)
                                  ELSE db[j]]
                 IN  /\ db' = after
                     /\ trades' = trades \o trades_of({after[j] : j \in ids})
                     /\ prices' = pf
           /\ last' = [op |-> "check_exits", ns |-> name]
           /\ cursor' = <<i + 1, 1>>
    /\ UNCHANGED <<now, phase, cycles, bankroll, batch, signals, cooldowns,
                   paper, history, sz>>

\* the monitor loop sleeps until the next cycle
Sleep ==
    /\ UNCHANGED <<cfg, mon, filtered>>
    /\ phase = "arena_exits"
    /\ pending_exits(db, cursor[1]) = {}
    /\ cycles < MaxCycles
    /\ \E d \in SleepSteps : now' = now + d
    /\ phase' = "idle"
    /\ prices' = <<>>
    /\ last' = [op |-> "sleep", ns |-> ""]
    /\ cursor' = <<1, 1>>
    /\ UNCHANGED <<cycles, bankroll, batch, signals, cooldowns, paper,
                   history, db, trades, sz>>

Next ==
    \/ StartCycle
    \/ PrimaryOpen
    \/ PrimaryExits
    \/ ArenaOpen
    \/ ArenaExits
    \/ Sleep

Spec == Init /\ [][Next]_vars

-----------------------------------------------------------------------------
(* Sizing: open_position and try_open applied to one input on empty books *)

SizingEntries == {3, 6, 17, 40, 50, 97}
SizingProbabilities == {10, 50, 90, 100}
SizingConfidences == {0, 50, 55, 60, 75, 80, 100}
SizingBankrolls == {677, 1000, 100000, 100005}

\* open_position is called on an empty primary book
SizeOpenPosition ==
    /\ sz.op = "none"
    /\ UNCHANGED <<cfg, mon, filtered>>
    /\ \E entry_price \in SizingEntries, ai_probability \in SizingProbabilities,
          confidence \in SizingConfidences, bank \in SizingBankrolls :
          sz' = [op |-> "open_position", max_position_pct |-> MAX_POSITION_PCT,
                 bank |-> bank, entry_price |-> entry_price,
                 ai_probability |-> ai_probability, confidence |-> confidence,
                 kelly |-> kelly_size(ai_probability, entry_price, confidence, bank),
                 pos |-> open_position(<<>>, 1, "m1", "BUY_YES", entry_price,
                                       ai_probability, bank, confidence, now)]
    /\ UNCHANGED <<now, phase, cycles, bankroll, batch, signals, cooldowns,
                   cursor, paper, history, db, trades, prices, last>>

\* StrategyRunner.try_open is called on an empty book of one strategy
SizeTryOpen ==
    /\ sz.op = "none"
    /\ UNCHANGED <<cfg, mon, filtered>>
    /\ \E name \in StrategyNames, entry_price \in SizingEntries,
          ai_prob \in SizingProbabilities, confidence \in SizingConfidences,
          bank \in SizingBankrolls :
          sz' = [op |-> "try_open",
                 max_position_pct |-> STRATEGIES[name].max_position_pct,
                 bank |-> bank, entry_price |-> entry_price,
                 ai_probability |-> ai_prob, confidence |-> confidence,
                 kelly |-> StrategyRunner_kelly_size(STRATEGIES[name], bank,
                               ai_prob, entry_price, confidence),
                 pos |-> try_open(STRATEGIES[name], bank, <<>>, <<>>, "m1",
                                  "BUY_YES", entry_price, ai_prob, confidence, now)]
    /\ UNCHANGED <<now, phase, cycles, bankroll, batch, signals, cooldowns,
                   cursor, paper, history, db, trades, prices, last>>

NextSizing == SizeOpenPosition \/ SizeTryOpen

SpecSizing == Init /\ [][NextSizing]_vars

\* a sizing evaluation created a position
Sized == sz.op # "none" /\ sz.pos # NoPos

-----------------------------------------------------------------------------
(* Entry evaluation: calculate_edge and run_arena applied to one estimate *)

EdgePrices == {0, 2, 3, 5, 50, 60, 95, 99, 100}
EdgeProbabilities == {1, 30, 40, 51, 52, 55, 70, 90, 99}
EdgeConfidences == {50, 80, 100}
EdgeHours == {None, 0, 1, 3, 5, 6, 100, 1000}
EdgeBankrolls == {100000, 100006, 1000000}
EdgeMinEdges == {None, 0, 2, 10}

EdgeEstimates ==
    [market_id : {"m1"}, current_price : EdgePrices,
     ai_probability : EdgeProbabilities, confidence : EdgeConfidences,
     hours_left : EdgeHours]

\* calculate_edge is called on one estimate: the TradeSignal or None, and
\* the entry _log_filtered writes
EdgeCalculate ==
    /\ sz.op = "none"
    /\ \E est \in EdgeEstimates, bank \in EdgeBankrolls, min_edge \in EdgeMinEdges :
          /\ sz' = [op |-> "calculate_edge", est |-> est, bank |-> bank,
                    min_edge |-> min_edge, name |-> "",
                    sig |-> calculate_edge(est, bank, min_edge), pos |-> NoPos]
          /\ filtered' = find_edges_log(filtered, <<est>>, bank, min_edge)
    /\ UNCHANGED <<now, phase, cycles, bankroll, batch, signals, cooldowns,
                   cursor, paper, history, db, trades, prices, last, cfg, mon>>

\* run_arena is called with one estimate and one active strategy on an empty
\* positions table
EdgeArena ==
    /\ sz.op = "none"
    /\ \E est \in EdgeEstimates, bank \in EdgeBankrolls, name \in StrategyNames :
          LET config == run_config(cfg, name)
              sig == arena_signal(config, est)
              pos == IF sig = NoSignal THEN NoPos
                     ELSE try_open(config, bank, db, trades, sig.market_id,
                                   sig.direction, sig.entry_price, sig.ai_prob,
                                   sig.confidence, now)
          IN  /\ sz' = [op |-> "run_arena", est |-> est, bank |-> bank,
                        min_edge |-> config.min_edge, name |-> name,
                        sig |-> sig, pos |-> pos]
              /\ db' = run_arena_strategy(config, bank, db, trades, <<est>>, now)
    /\ UNCHANGED <<now, phase, cycles, bankroll, batch, signals, cooldowns,
                   cursor, paper, history, trades, prices, last, cfg, mon,
                   filtered>>

NextEdge == EdgeCalculate \/ EdgeArena

SpecEdge == Init /\ [][NextEdge]_vars

-----------------------------------------------------------------------------
(* Entry at extreme prices: both entry paths on the grid of the price tick *)

\* the price tick of the extreme markets: PriceUnit ticks to the cent
PriceUnit == 10

\* YES prices and model probabilities around the ends of the price range
TickPrices ==
    {0, 1, PriceUnit - 1, PriceUnit, 3 * PriceUnit, 50 * PriceUnit,
     99 * PriceUnit, 99 * PriceUnit + 1, 100 * PriceUnit - 5,
     100 * PriceUnit - 1, 100 * PriceUnit}

TickProbabilities ==
    {1, 5, 50 * PriceUnit, 100 * PriceUnit - 5, 100 * PriceUnit - 1}

TickEstimates ==
    [market_id : {"m1"}, current_price : TickPrices,
     ai_probability : TickProbabilities, confidence : {50, 100}]

\* the primary path on an empty book: calculate_edge, then open_position
\* with the price and the probability of the chosen side
TickPrimary ==
    /\ sz.op = "none"
    /\ \E est \in TickEstimates, min_edge \in {0, cfg_min_edge_threshold} :
          LET sig == calculate_edge_at(PriceUnit, est, bankroll, min_edge)
              entry_price == side_price(PriceUnit, sig.direction, est.current_price)
          IN  /\ sz' = [op |-> "open_position", est |-> est, name |-> "",
                        passed |-> sig # NoSignal,
                        entry_price |-> entry_price,
                        cost |-> IF sig = NoSignal THEN 0
                                 ELSE open_position_cost(PriceUnit, entry_price,
                                          side_price(PriceUnit, sig.direction,
                                                     est.ai_probability),
                                          est.confidence, bankroll)]
              /\ filtered' = IF sig = NoSignal
                             THEN log_filtered(filtered, est,
                                      filter_reason(PriceUnit, est, bankroll,
                                                    min_edge))
                             ELSE filtered
    /\ UNCHANGED <<now, phase, cycles, bankroll, batch, signals, cooldowns,
                   cursor, paper, history, db, trades, prices, last, cfg, mon>>

\* the arena path on an empty book: the evaluation of run_arena, then try_open
TickArena ==
    /\ sz.op = "none"
    /\ \E est \in TickEstimates, name \in StrategyNames :
          LET sig == arena_signal_at(PriceUnit, run_config(cfg, name), est)
          IN  sz' = [op |-> "try_open", est |-> est, name |-> name,
                     passed |-> sig # NoSignal,
                     entry_price |-> side_price(PriceUnit, sig.direction,
                                                est.current_price),
                     cost |-> IF sig = NoSignal THEN 0
                              ELSE try_open_cost(PriceUnit, run_config(cfg, name),
                                       bankroll, sig.entry_price, sig.ai_prob,
                                       sig.confidence)]
    /\ UNCHANGED <<now, phase, cycles, bankroll, batch, signals, cooldowns,
                   cursor, paper, history, db, trades, prices, last, cfg, mon,
                   filtered>>

NextTicks == TickPrimary \/ TickArena

SpecTicks == Init /\ [][NextTicks]_vars

-----------------------------------------------------------------------------
(* Families: run_arena with two strategies on markets of related questions *)

\* the markets in the order the scanner lists them
FamilyMarkets == <<"m1", "b1", "b2", "b3", "bt", "t1", "b4", "m2">>

\* the active strategies of the run, in the order run_arena walks them
FamilyOrder == <<"baseline", "aggressive">>

\* the estimate of a market: a strong BUY_YES signal
FamilyEstimate(market_id) ==
    [market_id |-> market_id, current_price |-> 40, ai_probability |-> 70,
     confidence |-> 80]

\* the estimates of the markets at the positions S, in the order of the list
RECURSIVE FamilyBatch(_, _)
FamilyBatch(S, i) ==
    IF i > Len(FamilyMarkets) THEN <<>>
    ELSE (IF i \in S THEN <<FamilyEstimate(FamilyMarkets[i])>> ELSE <<>>)
            \o FamilyBatch(S, i + 1)

\* run_arena is called with the estimates of the cycle
FamScan ==
    /\ phase = "idle"
    /\ \E S \in SUBSET (1..Len(FamilyMarkets)) : batch' = FamilyBatch(S, 1)
    /\ phase' = "families"
    /\ cursor' = <<1, 1>>
    /\ last' = [op |-> "run_arena", ns |-> ""]
    /\ UNCHANGED <<now, cycles, bankroll, signals, cooldowns, paper, history,
                   db, trades, prices, sz, cfg, mon, filtered>>

\* one iteration of "for est in estimates" for the strategy at work
FamOpen ==
    /\ phase = "families"
    /\ cursor[1] <= Len(FamilyOrder)
    /\ cursor[2] <= Len(batch)
    /\ db' = run_arena_strategy(run_config(cfg, FamilyOrder[cursor[1]]),
                                bankroll, db, trades, <<batch[cursor[2]]>>, now)
    /\ cursor' = <<cursor[1], cursor[2] + 1>>
    /\ last' = [op |-> "try_open", ns |-> FamilyOrder[cursor[1]]]
    /\ UNCHANGED <<now, phase, cycles, bankroll, batch, signals, cooldowns,
                   paper, history, trades, prices, sz, cfg, mon, filtered>>

\* the loop reaches the next strategy, a moment later
FamNext ==
    /\ phase = "families"
    /\ cursor[1] <= Len(FamilyOrder)
    /\ cursor[2] > Len(batch)
    /\ cursor' = <<cursor[1] + 1, 1>>
    /\ now' = now + 1
    /\ last' = [op |-> "next", ns |-> last.ns]
    /\ UNCHANGED <<phase, cycles, bankroll, batch, signals, cooldowns, paper,
                   history, db, trades, prices, sz, cfg, mon, filtered>>

NextFamilies == FamScan \/ FamOpen \/ FamNext

SpecFamilies == Init /\ [][NextFamilies]_vars

-----------------------------------------------------------------------------
(* Books: the open and exit handlers called on one book, market after market *)

MarketOrder == <<"m1", "m2", "m3", "m4", "m5", "m6", "m7", "m8", "m9", "m10">>

BookNamespaces == {"paper", "baseline", "aggressive", "sniper"}

\* the estimates of this driver: BUY_YES entries, a weak signal on the first
\* market and a strong one on the others
BookEstimates(market_id) ==
    IF market_id = MarketOrder[1]
    THEN {[entry_price |-> 40, ai_probability |-> 50, confidence |-> 50]}
    ELSE {[entry_price |-> 40, ai_probability |-> 70, confidence |-> 80]}

\* the price a market shows when the markets ms are settling above target
settling(ms, market_id) == IF market_id \in ms THEN 70 ELSE NoPrice

\* the driver picks the book it works on
BookSelect ==
    /\ UNCHANGED <<cfg, mon, filtered>>
    /\ phase = "idle"
    /\ last.op = "init"
    /\ \E ns \in BookNamespaces : last' = [op |-> "select", ns |-> ns]
    /\ phase' = "books"
    /\ UNCHANGED <<now, cycles, bankroll, batch, signals, cooldowns, cursor,
                   paper, history, db, trades, prices, sz>>

\* open_position on the next market
BookOpen ==
    /\ UNCHANGED <<cfg, mon, filtered>>
    /\ phase = "books"
    /\ last.ns = "paper"
    /\ Len(paper) < Len(MarketOrder)
    /\ \E e \in BookEstimates(MarketOrder[Len(paper) + 1]) :
          LET pos == open_position(paper, Len(paper) + 1,
                                   MarketOrder[Len(paper) + 1], "BUY_YES",
                                   e.entry_price, e.ai_probability, bankroll,
                                   e.confidence, now)
          IN  paper' = IF pos # NoPos THEN Append(paper, pos) ELSE paper
    /\ last' = [op |-> "open_position", ns |-> "paper"]
    /\ UNCHANGED <<now, phase, cycles, bankroll, batch, signals, cooldowns,
                   cursor, history, db, trades, prices, sz>>

\* check_exits of the primary book while the first k markets settle
BookExits ==
    /\ UNCHANGED <<cfg, mon, filtered>>
    /\ phase = "books"
    /\ last.ns = "paper"
    /\ \E k \in 1..Len(paper) :
          LET ms == {MarketOrder[i] : i \in 1..k}
              after == [i \in 1..Len(paper) |->
                           IF paper[i].status = "open"
                           THEN check_exits_one(paper[i],
                                    settling(ms, paper[i].market_id), now)
                           ELSE paper[i]]
          IN  /\ paper' = after
              /\ history' = history \o closed_by(paper, after, 1)
    /\ last' = [op |-> "check_exits", ns |-> "paper"]
    /\ UNCHANGED <<now, phase, cycles, bankroll, batch, signals, cooldowns,
                   cursor, db, trades, prices, sz>>

\* StrategyRunner.try_open on the next market
BookTryOpen ==
    /\ UNCHANGED <<cfg, mon, filtered>>
    /\ phase = "books"
    /\ last.ns \in StrategyNames
    /\ Cardinality(DOMAIN db) < Len(MarketOrder)
    /\ \E e \in BookEstimates(MarketOrder[Cardinality(DOMAIN db) + 1]) :
          LET pos == try_open(run_config(cfg, last.ns), bankroll, db, trades,
                              MarketOrder[Cardinality(DOMAIN db) + 1], "BUY_YES",
                              e.entry_price, e.ai_probability, e.confidence, now)
          IN  db' = IF pos # NoPos THEN upsert_position(db, pos) ELSE db
    /\ last' = [op |-> "try_open", ns |-> last.ns]
    /\ UNCHANGED <<now, phase, cycles, bankroll, batch, signals, cooldowns,
                   cursor, paper, history, trades, prices, sz>>

\* StrategyRunner.check_exits while the first k markets settle
BookArenaExits ==
    /\ UNCHANGED <<cfg, mon, filtered>>
    /\ phase = "books"
    /\ last.ns \in StrategyNames
    /\ \E k \in 1..Cardinality(DOMAIN db) :
          LET ms == {MarketOrder[i] : i \in 1..k}
              ids == open_ids(db, last.ns)
              after == [i \in DOMAIN db |->
                           IF i \in ids
                           THEN StrategyRunner_check_one(STRATEGIES[last.ns], db[i],
                                    settling(ms, db[i].market_id), now)
                           ELSE db[i]]
          IN  /\ db' = after
              /\ trades' = trades \o trades_of({after[i] : i \in ids})
    /\ last' = [op |-> "check_exits", ns |-> last.ns]
    /\ UNCHANGED <<now, phase, cycles, bankroll, batch, signals, cooldowns,
                   cursor, paper, history, prices, sz>>

NextBooks ==
    \/ BookSelect
    \/ BookOpen
    \/ BookExits
    \/ BookTryOpen
    \/ BookArenaExits

SpecBooks == Init /\ [][NextBooks]_vars

-----------------------------------------------------------------------------
(* Lifecycle: the handlers called on one market of one book, check after check *)

MaxChecks == 3

LifeNamespaces == {"paper", "baseline", "sniper"}

LifeMarket == "m1"

\* the estimates of the market: those of the scan cycle, and one of a small
\* edge at a high price, whose stop-loss lies above the trailing distance
LifeEstimates ==
    {e \in EstimateSet : e.market_id = LifeMarket}
        \cup {[market_id |-> LifeMarket, current_price |-> 80,
               ai_probability |-> 90, confidence |-> 80]}

\* the YES prices the market may show to an exit check
LifePrices == {20, 33, 38, 40, 50, 55, 60, 85}

\* the driver picks the book it works on
LifeSelect ==
    /\ UNCHANGED <<cfg, mon, filtered>>
    /\ phase = "idle"
    /\ last.op = "init"
    /\ \E ns \in LifeNamespaces : last' = [op |-> "select", ns |-> ns]
    /\ phase' = "life"
    /\ UNCHANGED <<now, cycles, bankroll, batch, signals, cooldowns, cursor,
                   paper, history, db, trades, prices, sz>>

\* an estimate arrives at the start of a cycle: open_position, or run_arena
\* for the strategy
LifeOpen ==
    /\ UNCHANGED <<cfg, mon, filtered>>
    /\ phase = "life"
    /\ last.op \in {"select", "sleep"}
    /\ \E est \in LifeEstimates :
          IF last.ns = "paper"
          THEN LET sig == calculate_edge(est, bankroll, MIN_EDGE_ARG)
                   pos == IF sig = NoSignal THEN NoPos
                          ELSE open_position(paper, Len(paper) + 1, sig.market_id,
                                   sig.direction,
                                   current_price(sig.direction, sig.current_price),
                                   current_price(sig.direction, sig.ai_probability),
                                   bankroll, sig.confidence, now)
               IN  /\ paper' = IF pos # NoPos THEN Append(paper, pos) ELSE paper
                   /\ db' = db
          ELSE /\ db' = run_arena_strategy(run_config(cfg, last.ns), bankroll,
                                           db, trades, <<est>>, now)
               /\ paper' = paper
    /\ last' = [op |-> IF last.ns = "paper" THEN "open_position" ELSE "try_open",
                 ns |-> last.ns]
    /\ UNCHANGED <<now, phase, cycles, bankroll, batch, signals, cooldowns,
                   cursor, history, trades, prices, sz>>

\* the exit check of the cycle: check_exits, or StrategyRunner.check_exits,
\* sees one price of the market
LifeExits ==
    /\ UNCHANGED <<cfg, mon, filtered>>
    /\ phase = "life"
    /\ last.op # "check_exits"
    /\ cycles < MaxChecks
    /\ \E yes_price \in LifePrices \cup {NoPrice} :
          /\ prices' = [m \in {LifeMarket} |-> yes_price]
          /\ IF last.ns = "paper"
             THEN LET after == [i \in 1..Len(paper) |->
                                   IF paper[i].status = "open"
                                   THEN check_exits_one(paper[i], yes_price, now)
                                   ELSE paper[i]]
                  IN  /\ paper' = after
                      /\ history' = history \o closed_by(paper, after, 1)
                      /\ UNCHANGED <<db, trades>>
             ELSE LET ids == open_ids(db, last.ns)
                      after == [j \in DOMAIN db |->
                                   IF j \in ids
                                   THEN StrategyRunner_check_one(STRATEGIES[last.ns],
                                            db[j], yes_price, now)
                                   ELSE db[j]]
                  IN  /\ db' = after
                      /\ trades' = trades \o trades_of({after[j] : j \in ids})
                      /\ UNCHANGED <<paper, history>>
    /\ cycles' = cycles + 1
    /\ last' = [op |-> "check_exits", ns |-> last.ns]
    /\ UNCHANGED <<now, phase, bankroll, batch, signals, cooldowns, cursor, sz>>

\* time passes after an exit check
LifeTick ==
    /\ UNCHANGED <<cfg, mon, filtered>>
    /\ phase = "life"
    /\ last.op = "check_exits"
    /\ cycles < MaxChecks
    /\ \E d \in SleepSteps : now' = now + d
    /\ last' = [op |-> "sleep", ns |-> last.ns]
    /\ UNCHANGED <<phase, cycles, bankroll, batch, signals, cooldowns, cursor,
                   paper, history, db, trades, prices, sz>>

NextLife ==
    \/ LifeSelect
    \/ LifeOpen
    \/ LifeExits
    \/ LifeTick

\* the configurations of the run: the defaults, and a config.yaml that sets
\* the position limits
LifeConfigs ==
    {DefaultConfig,
     [max_positions |-> 2, cooldown_hours |-> 24, timeout_hours |-> 12,
      strategy_overrides |-> {<<"sniper", "timeout_hours", 3>>,
                              <<"baseline", "timeout_hours", 12>>,
                              <<"baseline", "stop_loss_pct", 10>>}]}

InitLife ==
    /\ InitStores
    /\ cfg \in LifeConfigs
    /\ mon = MonitorOff

SpecLife == InitLife /\ [][NextLife]_vars

-----------------------------------------------------------------------------
(* Namespaces *)

Namespaces == {"paper"} \cup StrategyNames

\* the positions a namespace holds
Book(ns) ==
    IF ns = "paper" THEN SeqToSet(paper) ELSE get_positions(db, "arena", ns)

OpenBook(ns) == {p \in Book(ns) : p.status = "open"}

\* the total-exposure budget of a namespace, in cents
Budget(ns) ==
    IF ns = "paper" THEN (bankroll * MAX_TOTAL_EXPOSURE_PCT) \div 100 ELSE bankroll

\* C1: every namespace, the primary paper book and each arena strategy,
\* holds at most one open position for any market
C1_one_open_position_per_market ==
    \A ns \in Namespaces :
        \A p, q \in OpenBook(ns) : p.market_id = q.market_id => p = q

\* C1 witness: both signals of a cycle were about one market, the first one
\* opened a position on it and the second one was processed as well
C1_witness_second_signal_same_market ==
    /\ phase = "signals"
    /\ cycles = 1
    /\ Len(signals) = 2
    /\ cursor[1] = 3
    /\ signals[1].market_id = signals[2].market_id
    /\ \E p \in OpenBook("paper") : p.market_id = signals[1].market_id

\* C2: the summed cost of the open positions of a namespace never exceeds
\* its budget; a new position costs at most the budget that remained, and
\* none is created when less than one dollar remained
C2_exposure_within_budget ==
    [][\A ns \in Namespaces :
          /\ SumCost(OpenBook(ns))' <= Budget(ns)
          /\ \A p \in OpenBook(ns)' \ Book(ns) :
                /\ p.cost <= Budget(ns) - SumCost(OpenBook(ns))
                /\ Budget(ns) - SumCost(OpenBook(ns)) >= MIN_COST]_vars

\* C2 witness: a position was cut down to the budget that remained, and the
\* budget is now used up
C2_witness_budget_used_up ==
    \E ns \in BookNamespaces :
        /\ SumCost(OpenBook(ns)) > Budget(ns) - MIN_COST
        /\ \E p, q \in OpenBook(ns) : p.cost < q.cost
        /\ last.op \in {"open_position", "try_open"}
        /\ last.ns = ns

-----------------------------------------------------------------------------
(* Live book: src/src/position_tracker.py, src/src/exit_manager.py *)

cfg_max_order_size == 1500
cfg_live_timeout_hours == 6
STALE_PENDING_HOURS == 2
FILLED_PCT == 95

\* the first 12 characters of the order id are the key of the row; the order
\* ids of the model differ within them
live_id(order_id) == <<order_id, 0>>

\* the fills the exchange may report for an order of so many shares
FillLevels(shares) == {0, shares \div 2, shares}

\* "Check immediate fill status": the status a fill gives a new position
initial_status(size_matched, original_size) ==
    IF 100 * size_matched >= FILLED_PCT * original_size THEN "open"
    ELSE IF size_matched > 0 THEN "partial"
    ELSE "pending"

\* open_live_position after place_limit_order returned order_id: the row it
\* upserts, or NoPos when the size buys too few shares
open_live_position(order_id, market_id, direction, price, size_usd, target_price, stop_loss, confidence, size_matched, t) ==
    LET shares == IF price > 0 THEN size_usd \div price ELSE 0
        status == initial_status(size_matched, shares)
    IN  IF shares < cfg_min_shares THEN NoPos
        ELSE [id |-> live_id(order_id), mode |-> "live", strategy |-> "",
              market_id |-> market_id, direction |-> direction,
              entry_price |-> price, shares |-> shares,
              filled_shares |-> IF status = "pending" THEN 0 ELSE size_matched,
              cost |-> shares * price, target_price |-> target_price,
              stop_loss |-> stop_loss, confidence |-> confidence,
              status |-> status, order_id |-> order_id, entry_time |-> t,
              exit_price |-> None, exit_time |-> None, exit_reason |-> "",
              pnl |-> None, peak_price |-> None]

\* what client.get_order may answer about the order of a pending row
OrderInfos(pos) ==
    {info \in [size_matched : FillLevels(pos.shares),
               status : {"LIVE", "MATCHED", "CANCELLED"}] :
        /\ info.size_matched >= pos.filled_shares
        /\ (info.status = "MATCHED") = (info.size_matched = pos.shares)}

\* one iteration of the loop of check_pending_orders: the row after the
\* order was looked up (a stale unfilled order is cancelled at the exchange)
pending_update(pos, info, t) ==
    IF \/ 100 * info.size_matched >= FILLED_PCT * pos.shares
       \/ info.status = "MATCHED"
    THEN [pos EXCEPT !.status = "open", !.filled_shares = info.size_matched,
                     !.cost = info.size_matched * pos.entry_price]
    ELSE IF info.size_matched > pos.filled_shares
    THEN [pos EXCEPT !.status = "partial", !.filled_shares = info.size_matched]
    ELSE IF info.status = "CANCELLED"
    THEN [pos EXCEPT !.status = "cancelled"]
    ELSE IF /\ t - pos.entry_time > STALE_PENDING_HOURS * TicksPerHour
            /\ info.size_matched = 0
    THEN [pos EXCEPT !.status = "cancelled"]
    ELSE pos

\* the ids of the live rows of a status
live_ids(rows, statuses) ==
    {i \in DOMAIN rows : rows[i].mode = "live" /\ rows[i].status \in statuses}

\* delete_positions_by_status(mode="live", status="cancelled")
delete_cancelled(rows) ==
    [i \in DOMAIN rows \ live_ids(rows, {"cancelled"}) |-> rows[i]]

\* the rows after check_pending_orders looked up the orders as infos says
pending_checked(rows, infos, t) ==
    [i \in DOMAIN rows |->
        IF i \in DOMAIN infos THEN pending_update(rows[i], infos[i], t) ELSE rows[i]]

\* cfg.live_timeout_hours: the value of config.yaml, or the default
live_timeout_hours ==
    IF "live_timeout_hours" \in DOMAIN cfg THEN cfg.live_timeout_hours
    ELSE cfg_live_timeout_hours

\* the exit check of check_live_exits for one open row at the price of its
\* token: the reason to close it, or ""
live_exit_reason(pos, token_price, t) ==
    IF pos.target_price # 0 /\ 100 * token_price >= pos.target_price
    THEN "TAKE_PROFIT"
    ELSE IF pos.stop_loss # 0 /\ 100 * token_price <= pos.stop_loss
    THEN "STOP_LOSS"
    ELSE IF t - pos.entry_time > live_timeout_hours * TicksPerHour
    THEN "TIMEOUT"
    ELSE ""

\* close_live_position: the row sold at the best bid of its token, or the
\* row unchanged when the book shows no bid
close_live_position(pos, best_bid, reason, t) ==
    IF best_bid = NoPrice THEN pos
    ELSE [pos EXCEPT !.status = "closed", !.exit_price = best_bid,
                     !.exit_time = t, !.exit_reason = reason,
                     !.pnl = IF pos.direction = "BUY_YES"
                             THEN (best_bid - pos.entry_price) * pos.shares
                             ELSE (pos.entry_price - best_bid) * pos.shares]

\* the trade record close_live_position inserts
live_trade_of(row) == [trade_of(row) EXCEPT !.mode = "live", !.strategy = ""]

\* the trades of the live rows of S that closed, newest row first
RECURSIVE trades_of_live(_)
trades_of_live(S) ==
    IF S = {} THEN <<>>
    ELSE LET r == CHOOSE x \in S : \A y \in S : created_rank(x) >= created_rank(y)
         IN  (IF r.status = "closed" /\ r.mode = "live"
              THEN <<live_trade_of(r)>> ELSE <<>>) \o trades_of_live(S \ {r})

-----------------------------------------------------------------------------
(* Live exits: check_live_exits on a book of live positions *)

MaxLiveChecks == 2

\* a config.yaml that sets live_timeout_hours
LiveExitConfigs ==
    {[max_positions |-> 4, cooldown_hours |-> 1, timeout_hours |-> 24,
      strategy_overrides |-> {}, live_timeout_hours |-> h] : h \in {3, 10}}

\* the price client.get_market shows for the token of a row, NoPrice when the
\* market cannot be read or does not list the token
LiveTokenPrices == {NoPrice, 30, 31, 60}

\* what the exchange does with the sell of a row: the best bid of the book
\* (NoPrice when the book has no bids or cannot be read) and whether
\* post_order returns the order or raises
LiveSales ==
    {[best_bid |-> NoPrice, posted |-> TRUE], [best_bid |-> 45, posted |-> FALSE],
     [best_bid |-> 25, posted |-> TRUE], [best_bid |-> 70, posted |-> TRUE]}

\* close_live_position on the book and the exchange of sale: the row sold, or
\* the row as it was when nothing was sold
close_live_position_on(pos, sale, reason, t) ==
    IF ~sale.posted THEN pos
    ELSE close_live_position(pos, sale.best_bid, reason, t)

\* the mutant of check_live_exits_rows: the row is marked closed before the
\* sell is posted
check_live_exits_rows_closed_first(rows, tokens, sales, t) ==
    [i \in DOMAIN rows |->
        IF i \in live_ids(rows, {"open"}) /\ tokens[i] # NoPrice
              /\ live_exit_reason(rows[i], tokens[i], t) # ""
        THEN close_live_position(rows[i],
                 IF sales[i].best_bid = NoPrice THEN tokens[i]
                 ELSE sales[i].best_bid,
                 live_exit_reason(rows[i], tokens[i], t), t)
        ELSE rows[i]]

\* the rows after the loop of check_live_exits: tokens gives the price read
\* for each open row, sales what the exchange does with its sell
check_live_exits_rows(rows, tokens, sales, t) ==
    [i \in DOMAIN rows |->
        IF i \in live_ids(rows, {"open"}) /\ tokens[i] # NoPrice
              /\ live_exit_reason(rows[i], tokens[i], t) # ""
        THEN close_live_position_on(rows[i], sales[i],
                 live_exit_reason(rows[i], tokens[i], t), t)
        ELSE rows[i]]

InitLiveExits == InitStores /\ cfg \in LiveExitConfigs /\ mon = MonitorOff

\* open_live_position: an order on a market without a live row is placed at
\* 0.40, BUY_YES on m1 or BUY_NO on m2, and the row is stored with the fill
\* the exchange reports
LiveOpen ==
    /\ phase = "idle"
    /\ \E order_id \in {"o1", "o2"} :
          LET market_id == IF order_id = "o1" THEN "m1" ELSE "m2"
              direction == IF order_id = "o1" THEN "BUY_YES" ELSE "BUY_NO"
          IN  /\ live_id(order_id) \notin DOMAIN db
              /\ \E size_matched \in FillLevels(20) :
                    db' = upsert_position(db,
                              open_live_position(order_id, market_id, direction,
                                  40, 800, 6000, 3000, 80, size_matched, now))
    /\ last' = [op |-> "open_live_position", ns |-> "live"]
    /\ UNCHANGED <<now, phase, cycles, bankroll, batch, signals, cooldowns,
                   cursor, paper, history, trades, prices, sz, cfg, mon,
                   filtered>>

\* check_live_exits: the pending orders are looked up, the cancelled rows
\* deleted, and each open row is checked at the price of its token
LiveExits ==
    /\ phase = "idle"
    /\ cycles < MaxLiveChecks
    /\ LET waiting == live_ids(db, {"pending", "partial"})
       IN  \E infos \in [waiting -> [size_matched : 0..20,
                                     status : {"LIVE", "MATCHED", "CANCELLED"}]] :
              /\ \A i \in waiting : infos[i] \in OrderInfos(db[i])
              /\ LET kept == delete_cancelled(pending_checked(db, infos, now))
                     open == live_ids(kept, {"open"})
                 IN  \E tokens \in [open -> LiveTokenPrices],
                        sales \in [open -> LiveSales] :
                     LET after == check_live_exits_rows(kept, tokens, sales, now)
                         sold == {i \in open : after[i].status = "closed"}
                     IN  /\ db' = after
                         /\ trades' = trades \o trades_of_live({after[i] : i \in sold})
                         /\ sz' = [op |-> "check_live_exits", positions |-> kept,
                                   tokens |-> tokens, sales |-> sales,
                                   closed |-> Cardinality(sold)]
    /\ cycles' = cycles + 1
    /\ phase' = "sleep"
    /\ last' = [op |-> "check_live_exits", ns |-> "live"]
    /\ UNCHANGED <<now, bankroll, batch, signals, cooldowns, cursor, paper,
                   history, prices, cfg, mon, filtered>>

\* the time to the next check
LiveSleep ==
    /\ phase = "sleep"
    /\ \E h \in {2, 4} : now' = now + h * TicksPerHour
    /\ phase' = "idle"
    /\ UNCHANGED <<cycles, bankroll, batch, signals, cooldowns, cursor, paper,
                   history, db, trades, prices, last, sz, cfg, mon, filtered>>

NextLiveExits == LiveOpen \/ LiveExits \/ LiveSleep

SpecLiveExits == InitLiveExits /\ [][NextLiveExits]_vars

-----------------------------------------------------------------------------
(* Monitor: main and run_scan of src/src/scanner.py, step by step *)

MaxMonCycles == 11
MaxScans == 2
MaxNews == 1
MaxFaults == 2

max_consecutive_errors == 10

\* the order ids the exchange hands out
OrderIds == <<"o1", "o2", "o3">>

\* the estimates of a cycle with news: one on each market
MonBatch ==
    <<[market_id |-> "m1", current_price |-> 40, ai_probability |-> 70, confidence |-> 80],
      [market_id |-> "m2", current_price |-> 40, ai_probability |-> 70, confidence |-> 50]>>

\* the YES prices a market may show to the exit checks of the monitor
MonPrices == {70}

\* the prices of a cycle after an exit check asked about markets ms
MonFetches(ms) ==
    {pf \in [DOMAIN prices \cup ms -> MonPrices \cup {NoPrice}] :
        \A m \in DOMAIN prices : pf[m] = prices[m]}

\* the monitor process before main takes the lock; news says whether the
\* markets have news in the first cycles, limit how many cycles are followed,
\* other whether a second scanner process may be started
MonitorStart(news, limit, other) ==
    [pc |-> "start", alarm |-> FALSE, errors |-> 0, lock |-> "free",
     other |-> other, mem |-> <<>>, todo |-> <<>>, order |-> "", orders |-> {},
     signals_done |-> 0, evaluated |-> {}, checked |-> {},
     raised |-> {}, timed_out |-> FALSE, faults |-> 0,
     news |-> news, limit |-> limit]

\* a monitor on quiet markets, and a second scanner process
InitMonitor ==
    /\ InitStores
    /\ cfg = DefaultConfig
    /\ mon = MonitorStart(FALSE, MaxMonCycles, "none")

\* a monitor alone on markets with news
InitScans ==
    /\ InitStores
    /\ cfg = DefaultConfig
    /\ mon = MonitorStart(TRUE, MaxScans, "absent")

\* the steps of one call of run_scan, in the order of the code
InCycle == mon.pc = "cycle"

\* fcntl.flock(lock_fd, LOCK_EX | LOCK_NB) of the monitor: it goes on with
\* the lock, or exits when another process holds it
Lock ==
    /\ mon.pc = "start"
    /\ mon' = IF mon.lock = "free"
              THEN [mon EXCEPT !.lock = "main", !.pc = "loop"]
              ELSE [mon EXCEPT !.pc = "refused"]
    /\ UNCHANGED <<now, phase, cycles, bankroll, batch, signals, cooldowns, cursor,
                   paper, history, db, trades, prices, last, sz, cfg, filtered>>

\* the ways a second scanner process is started: src/src/scanner.py with
\* --monitor, the same without it (the else branch of main), and
\* src/scripts/scanner.py with --monitor
OtherKinds == {"monitor", "scan", "scripts"}

\* the second process is inside a call of run_scan
OtherInCycle == mon.other \in {"monitor_cycle", "scan", "scripts_cycle"}

\* a second scanner process is started: the monitor of src/src/scanner.py
\* takes the lock or exits, the other two call run_scan without asking
OtherStart ==
    /\ mon.other = "none"
    /\ cycles = 0
    /\ \E kind \in OtherKinds :
          mon' = IF kind = "scan" THEN [mon EXCEPT !.other = "scan"]
                 ELSE IF kind = "scripts" THEN [mon EXCEPT !.other = "scripts_cycle"]
                 ELSE IF mon.lock = "free"
                      THEN [mon EXCEPT !.other = "monitor_cycle", !.lock = "other"]
                      ELSE [mon EXCEPT !.other = "exited"]
    /\ UNCHANGED <<now, phase, cycles, bankroll, batch, signals, cooldowns, cursor,
                   paper, history, db, trades, prices, last, sz, cfg, filtered>>

\* the second process goes on: its cycle ends, and it is stopped after it;
\* the lock of a process goes with it
OtherStep ==
    /\ mon.other \in {"scan", "monitor_cycle", "monitor_sleep", "scripts_cycle"}
    /\ mon' = IF mon.other = "monitor_cycle"
              THEN [mon EXCEPT !.other = "monitor_sleep"]
              ELSE [mon EXCEPT !.other = "exited",
                               !.lock = IF mon.lock = "other" THEN "free"
                                        ELSE mon.lock]
    /\ UNCHANGED <<now, phase, cycles, bankroll, batch, signals, cooldowns, cursor,
                   paper, history, db, trades, prices, last, sz, cfg, filtered>>

\* top of the loop: heartbeat, signal.alarm(scan_timeout), run_scan is called
Arm ==
    /\ mon.pc = "loop"
    /\ cycles < mon.limit
    /\ mon' = [mon EXCEPT !.pc = "cycle", !.alarm = TRUE, !.signals_done = 0,
                          !.faults = 0,
                          !.evaluated = {}, !.checked = {}, !.raised = {},
                          !.timed_out = FALSE, !.mem = <<>>, !.todo = <<>>,
                          !.order = ""]
    /\ phase' = "scan"
    /\ cycles' = cycles + 1
    /\ prices' = <<>>
    /\ cursor' = <<1, 1>>
    /\ last' = [op |-> "run_scan", ns |-> ""]
    /\ UNCHANGED <<now, bankroll, batch, signals, cooldowns, paper, history, db,
                   trades, sz, cfg, filtered>>

\* run_scan returned: signal.alarm(0), consecutive_errors = 0
Disarm ==
    /\ InCycle
    /\ phase = "return"
    /\ mon' = [mon EXCEPT !.pc = "check", !.alarm = FALSE, !.errors = 0]
    /\ phase' = "idle"
    /\ UNCHANGED <<now, cycles, bankroll, batch, signals, cooldowns, cursor,
                   paper, history, db, trades, prices, last, sz, cfg, filtered>>

\* "if consecutive_errors >= max_consecutive_errors: break", else the sleep
\* begins
CheckErrors ==
    /\ mon.pc = "check"
    /\ mon' = [mon EXCEPT !.pc = IF mon.errors >= max_consecutive_errors
                                 THEN "exited" ELSE "sleep"]
    /\ UNCHANGED <<now, phase, cycles, bankroll, batch, signals, cooldowns, cursor,
                   paper, history, db, trades, prices, last, sz, cfg, filtered>>

\* time.sleep(args.interval) returns
MonSleep ==
    /\ mon.pc = "sleep"
    /\ mon' = [mon EXCEPT !.pc = "loop"]
    /\ now' = now + 1
    /\ UNCHANGED <<phase, cycles, bankroll, batch, signals, cooldowns, cursor,
                   paper, history, db, trades, prices, last, sz, cfg, filtered>>

\* run_scan up to save_signals: the news of the cycle become estimates,
\* find_edges and dedup_signals give the fresh signals
ScanSignals ==
    /\ InCycle
    /\ phase = "scan"
    /\ \E b \in (IF mon.news /\ cycles <= MaxNews THEN {<<>>, MonBatch}
                 ELSE {<<>>}) :
          LET r == dedup_signals(find_edges(b, bankroll, MIN_EDGE_ARG), cooldowns, now)
          IN  /\ batch' = b
              /\ signals' = r[1]
              /\ cooldowns' = r[2]
              /\ filtered' = find_edges_log(filtered, b, bankroll, MIN_EDGE_ARG)
    /\ phase' = "signals"
    /\ cursor' = <<1, 1>>
    /\ UNCHANGED <<now, cycles, bankroll, paper, history, db, trades, prices,
                   last, sz, cfg, mon>>

\* one iteration of "for sig in fresh_signals": open_position saves the list
ScanOpen ==
    /\ InCycle
    /\ phase = "signals"
    /\ cursor[1] <= Len(signals)
    /\ LET sig == signals[cursor[1]]
           pos == open_position(paper, Len(paper) + 1, sig.market_id, sig.direction,
                                current_price(sig.direction, sig.current_price),
                                current_price(sig.direction, sig.ai_probability),
                                bankroll, sig.confidence, now)
       IN  paper' = IF pos # NoPos THEN Append(paper, pos) ELSE paper
    /\ cursor' = <<cursor[1] + 1, 1>>
    /\ mon' = [mon EXCEPT !.signals_done = cursor[1]]
    /\ last' = [op |-> "open_position", ns |-> "paper"]
    /\ UNCHANGED <<now, phase, cycles, bankroll, batch, signals, cooldowns,
                   history, db, trades, prices, sz, cfg, filtered>>

\* the loop of check_exits of the primary book: the loaded list is changed
\* in memory, each close is appended to the history file at once
ScanExits ==
    /\ InCycle
    /\ phase = "signals"
    /\ cursor[1] > Len(signals)
    /\ \E pf \in MonFetches(open_markets(SeqToSet(paper))) :
          LET after == [i \in 1..Len(paper) |->
                           IF paper[i].status = "open"
                           THEN check_exits_one(paper[i], pf[paper[i].market_id], now)
                           ELSE paper[i]]
          IN  /\ mon' = [mon EXCEPT !.mem = after]
              /\ history' = history \o closed_by(paper, after, 1)
              /\ prices' = pf
    /\ phase' = "exits_save"
    /\ last' = [op |-> "check_exits", ns |-> "paper"]
    /\ UNCHANGED <<now, cycles, bankroll, batch, signals, cooldowns, cursor,
                   paper, db, trades, sz, cfg, filtered>>

\* _save_positions(positions) at the end of check_exits
ScanExitsSave ==
    /\ InCycle
    /\ phase = "exits_save"
    /\ paper' = mon.mem
    /\ mon' = [mon EXCEPT !.mem = <<>>, !.checked = @ \cup {"paper"}]
    /\ phase' = "live"
    /\ UNCHANGED <<now, cycles, bankroll, batch, signals, cooldowns, cursor,
                   history, db, trades, prices, last, sz, cfg, filtered>>

\* the rows after the exit loop of check_live_exits at the prices pf
live_checked(rows, pf, t) ==
    [i \in DOMAIN rows |->
        IF i \in live_ids(rows, {"open"})
        THEN LET token == current_price(rows[i].direction, pf[rows[i].market_id])
                 reason == IF pf[rows[i].market_id] = NoPrice THEN ""
                           ELSE live_exit_reason(rows[i], token, t)
             IN  IF reason = "" THEN rows[i]
                 ELSE close_live_position(rows[i], token, reason, t)
        ELSE rows[i]]

\* the live block of run_scan: check_live_exits looks up the pending orders,
\* drops the cancelled ones and closes the open rows that meet an exit
ScanLive ==
    /\ InCycle
    /\ phase = "live"
    /\ LET waiting == live_ids(db, {"pending", "partial"})
       IN  \E infos \in [waiting -> [size_matched : 0..100,
                                     status : {"LIVE", "MATCHED", "CANCELLED"}]] :
              /\ \A i \in waiting : infos[i] \in OrderInfos(db[i])
              /\ LET looked == pending_checked(db, infos, now)
                     kept == delete_cancelled(looked)
                 IN  \E pf \in MonFetches({kept[i].market_id :
                                               i \in live_ids(kept, {"open"})}) :
                     LET after == live_checked(kept, pf, now)
                     IN
                     /\ db' = after
                     /\ trades' = trades \o
                            trades_of_live({after[i] : i \in live_ids(kept, {"open"})})
                     /\ mon' = [mon EXCEPT
                            !.orders = @ \ {looked[i].order_id :
                                               i \in live_ids(looked, {"cancelled"})},
                            !.checked = @ \cup {"live"}]
                     /\ prices' = pf
    /\ phase' = "arena"
    /\ cursor' = <<1, 1>>
    /\ last' = [op |-> "check_live_exits", ns |-> "live"]
    /\ UNCHANGED <<now, cycles, bankroll, batch, signals, cooldowns,
                   paper, history, sz, cfg, filtered>>

\* the cursor of run_arena after the estimate it points at is done
NextEstimate == <<cursor[1], cursor[2] + 1>>

\* the size of the live order that mirrors a baseline position, the real
\* balance being the bankroll: min(cost * scale, cfg.max_order_size)
real_cost(paper_pos) == Min(paper_pos.cost, cfg_max_order_size)

\* one iteration of "for est in estimates" of run_arena for the strategy the
\* cursor points at; after the last estimate the next strategy begins. A new
\* baseline position of a dollar or more is mirrored by a live order
MonArena ==
    /\ InCycle
    /\ phase = "arena"
    /\ cursor[1] <= Len(run_configs)
    /\ LET name == run_configs[cursor[1]]
           config == run_config(cfg, name)
       IN  IF cursor[2] > Len(batch)
           THEN /\ cursor' = <<cursor[1] + 1, 1>>
                /\ mon' = [mon EXCEPT !.evaluated = @ \cup {name}]
                /\ UNCHANGED <<db, phase, last>>
           ELSE LET sig == arena_signal(config, batch[cursor[2]])
                    pos == IF sig = NoSignal THEN NoPos
                           ELSE try_open(config, bankroll, db, trades, sig.market_id,
                                         sig.direction, sig.entry_price, sig.ai_prob,
                                         sig.confidence, now)
                    mirrored == /\ name = "baseline"
                                /\ pos # NoPos
                                /\ real_cost(pos) >= 100
                                /\ real_cost(pos) \div pos.entry_price >= cfg_min_shares
                IN  /\ db' = IF pos # NoPos THEN upsert_position(db, pos) ELSE db
                    /\ phase' = IF mirrored THEN "live_order" ELSE "arena"
                    /\ cursor' = IF mirrored THEN cursor ELSE NextEstimate
                    /\ last' = [op |-> "try_open", ns |-> name]
                    /\ UNCHANGED mon
    /\ UNCHANGED <<now, cycles, bankroll, batch, signals, cooldowns,
                   paper, history, trades, prices, sz, cfg, filtered>>

\* place_limit_order inside open_live_position: the exchange takes the order
\* and answers with its id, or the order is refused and None comes back
MonPlaceOrder ==
    /\ InCycle
    /\ phase = "live_order"
    /\ \E taken \in BOOLEAN :
          IF taken /\ Cardinality(mon.orders) < Len(OrderIds)
          THEN /\ mon' = [mon EXCEPT !.orders = @ \cup
                                        {OrderIds[Cardinality(mon.orders) + 1]},
                                     !.order = OrderIds[Cardinality(mon.orders) + 1]]
               /\ phase' = "live_track"
               /\ UNCHANGED cursor
          ELSE /\ phase' = "arena"
               /\ cursor' = NextEstimate
               /\ UNCHANGED mon
    /\ UNCHANGED <<now, cycles, bankroll, batch, signals, cooldowns,
                   paper, history, db, trades, prices, last, sz, cfg, filtered>>

\* the rest of open_live_position: the fill is looked up and the row of the
\* order is upserted
MonTrackOrder ==
    /\ InCycle
    /\ phase = "live_track"
    /\ LET est == batch[cursor[2]]
           paper_pos == db[pos_id(est.market_id, now)]
           size_usd == real_cost(paper_pos)
       IN  \E size_matched \in FillLevels(size_usd \div paper_pos.entry_price) :
              db' = upsert_position(db,
                        open_live_position(mon.order, paper_pos.market_id,
                            paper_pos.direction, paper_pos.entry_price, size_usd,
                            paper_pos.target_price, paper_pos.stop_loss,
                            paper_pos.confidence, size_matched, now))
    /\ mon' = [mon EXCEPT !.order = ""]
    /\ phase' = "arena"
    /\ cursor' = NextEstimate
    /\ last' = [op |-> "open_live_position", ns |-> "live"]
    /\ UNCHANGED <<now, cycles, bankroll, batch, signals, cooldowns,
                   paper, history, trades, prices, sz, cfg, filtered>>

\* run_arena returned: check_arena_exits begins
MonArenaDone ==
    /\ InCycle
    /\ phase = "arena"
    /\ cursor[1] > Len(run_configs)
    /\ phase' = "arena_exits"
    /\ cursor' = <<1, 1>>
    /\ UNCHANGED <<now, cycles, bankroll, batch, signals, cooldowns,
                   paper, history, db, trades, prices, last, sz, cfg, mon, filtered>>

\* the open rows of a strategy in the order of the query: newest first
RECURSIVE exit_order(_, _)
exit_order(rows, ids) ==
    IF ids = {} THEN <<>>
    ELSE LET i == CHOOSE x \in ids :
                     \A y \in ids : created_rank(rows[x]) >= created_rank(rows[y])
         IN  <<i>> \o exit_order(rows, ids \ {i})

\* check_arena_exits calls StrategyRunner.check_exits of the next strategy:
\* its open rows are read; after the last strategy run_scan returns
MonArenaExits ==
    /\ InCycle
    /\ phase = "arena_exits"
    /\ IF cursor[1] > Len(StrategyOrder)
       THEN /\ phase' = "return"
            /\ UNCHANGED <<cursor, mon, last>>
       ELSE LET name == StrategyOrder[cursor[1]]
                ids == open_ids(db, name)
            IN  /\ last' = [op |-> "check_exits", ns |-> name]
                /\ IF ids = {}
                   THEN /\ cursor' = <<cursor[1] + 1, 1>>
                        /\ mon' = [mon EXCEPT !.checked = @ \cup {name}]
                        /\ UNCHANGED phase
                   ELSE /\ mon' = [mon EXCEPT !.todo = exit_order(db, ids)]
                        /\ phase' = "arena_row"
                        /\ UNCHANGED cursor
    /\ UNCHANGED <<now, cycles, bankroll, batch, signals, cooldowns,
                   paper, history, db, trades, prices, sz, cfg, filtered>>

\* the rows of the strategy are done: the loop of check_arena_exits goes on
RowsDone(todo) == todo = <<>>

\* one iteration of the loop of StrategyRunner.check_exits up to
\* upsert_position: the row with its peak, or with its close
MonArenaRow ==
    /\ InCycle
    /\ phase = "arena_row"
    /\ LET name == StrategyOrder[cursor[1]]
           i == Head(mon.todo)
       IN  \E pf \in MonFetches({db[i].market_id}) :
              LET row == StrategyRunner_check_one(STRATEGIES[name], db[i],
                                                  pf[db[i].market_id], now)
              IN  /\ db' = upsert_position(db, row)
                  /\ prices' = pf
                  /\ IF row.status = "closed"
                     THEN /\ phase' = "arena_trade"
                          /\ UNCHANGED <<mon, cursor>>
                     ELSE /\ mon' = [mon EXCEPT
                                 !.todo = Tail(@),
                                 !.checked = IF RowsDone(Tail(mon.todo))
                                             THEN @ \cup {name} ELSE @]
                          /\ phase' = IF RowsDone(Tail(mon.todo))
                                      THEN "arena_exits" ELSE "arena_row"
                          /\ cursor' = IF RowsDone(Tail(mon.todo))
                                       THEN <<cursor[1] + 1, 1>> ELSE cursor
    /\ UNCHANGED <<now, cycles, bankroll, batch, signals, cooldowns,
                   paper, history, trades, last, sz, cfg, filtered>>

\* insert_trade for the row that was closed and upserted
MonArenaTrade ==
    /\ InCycle
    /\ phase = "arena_trade"
    /\ LET name == StrategyOrder[cursor[1]]
       IN  /\ trades' = Append(trades, trade_of(db[Head(mon.todo)]))
           /\ mon' = [mon EXCEPT !.todo = Tail(@),
                                 !.checked = IF RowsDone(Tail(mon.todo))
                                             THEN @ \cup {name} ELSE @]
           /\ phase' = IF RowsDone(Tail(mon.todo)) THEN "arena_exits" ELSE "arena_row"
           /\ cursor' = IF RowsDone(Tail(mon.todo))
                        THEN <<cursor[1] + 1, 1>> ELSE cursor
    /\ UNCHANGED <<now, cycles, bankroll, batch, signals, cooldowns,
                   paper, history, db, prices, last, sz, cfg, filtered>>

\* the try/except that meets an exception raised at a step of run_scan:
\* the live mirror of run_arena, the live block and the arena block of
\* run_scan each have their own "except Exception", everything else is
\* caught in main
CaughtBy(ph) ==
    IF ph \in {"live_order", "live_track"} THEN "mirror"
    ELSE IF ph = "live" THEN "live_block"
    ELSE IF ph \in {"arena", "arena_exits", "arena_row", "arena_trade"}
    THEN "arena_block"
    ELSE "main"

\* the same without the try/except around the live mirror
ResumeAfter_mirror_unguarded(ph) ==
    IF CaughtBy(ph) = "live_block" THEN [phase |-> "arena", cursor |-> <<1, 1>>]
    ELSE [phase |-> "return", cursor |-> cursor]

\* where run_scan goes on after one of its own handlers caught an exception
ResumeAfter(ph) ==
    IF CaughtBy(ph) = "mirror" THEN [phase |-> "arena", cursor |-> NextEstimate]
    ELSE IF CaughtBy(ph) = "live_block" THEN [phase |-> "arena", cursor |-> <<1, 1>>]
    ELSE [phase |-> "return", cursor |-> cursor]

\* the part of run_scan a step belongs to: the phase, with the loop over the
\* signals told from check_exits and run_arena from check_arena_exits
Stage ==
    IF phase = "signals" /\ cursor[1] > Len(signals) THEN "exits"
    ELSE IF phase = "arena" /\ cursor[1] > Len(run_configs) THEN "arena_exits"
    ELSE phase

\* an exception other than TimeoutError is raised at a step of run_scan
Raise ==
    /\ InCycle
    /\ phase # "return"
    /\ mon.faults < MaxFaults
    /\ IF CaughtBy(phase) = "main"
       THEN /\ mon' = [mon EXCEPT !.pc = "check", !.errors = @ + 1,
                                  !.faults = @ + 1,
                                  !.raised = @ \cup {Stage}]
            /\ phase' = "idle"
            /\ UNCHANGED cursor
       ELSE /\ mon' = [mon EXCEPT !.order = "", !.faults = @ + 1,
                                  !.raised = @ \cup {Stage}]
            /\ phase' = ResumeAfter(phase).phase
            /\ cursor' = ResumeAfter(phase).cursor
    /\ UNCHANGED <<now, cycles, bankroll, batch, signals, cooldowns,
                   paper, history, db, trades, prices, last, sz, cfg, filtered>>

\* SIGALRM arrives while the alarm is armed: _timeout_handler raises
\* TimeoutError where the process is. Inside run_scan the nearest handler
\* catches it (TimeoutError is an Exception); in main "except TimeoutError"
\* catches it inside the inner try only; outside of it the process dies
AlarmFires ==
    /\ mon.alarm
    /\ mon.faults < MaxFaults
    /\ mon.pc \in {"loop", "cycle", "check", "sleep"}
    /\ IF mon.pc \in {"check", "sleep"}
       THEN /\ mon' = [mon EXCEPT !.pc = "crashed", !.alarm = FALSE,
                                  !.faults = @ + 1]
            /\ UNCHANGED <<phase, cursor>>
       ELSE IF mon.pc = "loop" \/ CaughtBy(phase) = "main"
       THEN /\ mon' = [mon EXCEPT !.pc = "check", !.alarm = FALSE,
                                  !.errors = @ + 1, !.timed_out = TRUE,
                                  !.faults = @ + 1]
            /\ phase' = "idle"
            /\ UNCHANGED cursor
       ELSE /\ mon' = [mon EXCEPT !.alarm = FALSE, !.order = "",
                                  !.timed_out = TRUE, !.faults = @ + 1]
            /\ phase' = ResumeAfter(phase).phase
            /\ cursor' = ResumeAfter(phase).cursor
    /\ UNCHANGED <<now, cycles, bankroll, batch, signals, cooldowns,
                   paper, history, db, trades, prices, last, sz, cfg, filtered>>

\* Ctrl+C: KeyboardInterrupt is no Exception, it passes every handler up to
\* "except KeyboardInterrupt" of main, and the process ends where it was
Interrupt ==
    /\ mon.pc \in {"loop", "cycle", "check", "sleep"}
    /\ mon' = [mon EXCEPT !.pc = "stopped"]
    /\ UNCHANGED <<now, phase, cycles, bankroll, batch, signals, cooldowns, cursor,
                   paper, history, db, trades, prices, last, sz, cfg, filtered>>

\* the steps of the monitor when no market has news: nothing is opened
NextMonitor ==
    \/ Lock \/ OtherStart \/ OtherStep
    \/ Arm \/ Disarm \/ CheckErrors \/ MonSleep
    \/ ScanSignals \/ ScanExits \/ ScanExitsSave \/ ScanLive
    \/ MonArena \/ MonArenaDone \/ MonArenaExits
    \/ Raise \/ AlarmFires \/ Interrupt

SpecMonitor == InitMonitor /\ [][NextMonitor]_vars

\* the steps of a monitor that is alone
NextScans ==
    \/ Lock \/ Arm \/ Disarm \/ CheckErrors \/ MonSleep
    \/ ScanSignals \/ ScanOpen \/ ScanExits \/ ScanExitsSave \/ ScanLive
    \/ MonArena \/ MonPlaceOrder \/ MonTrackOrder \/ MonArenaDone
    \/ MonArenaExits \/ MonArenaRow \/ MonArenaTrade
    \/ Raise \/ AlarmFires \/ Interrupt

SpecScans == InitScans /\ [][NextScans]_vars

-----------------------------------------------------------------------------
(* A market that comes back: the monitor over several cycles on one market *)

\* the cycles that are followed
MaxReturns == 3

\* the gaps between two cycles: the interval, or more than the cooldown of
\* try_open
ReturnSteps == {1, cfg_signal_cooldown_hours * TicksPerHour + 1}

InitReturns ==
    /\ InitStores
    /\ cfg = DefaultConfig
    /\ mon = MonitorStart(TRUE, MaxReturns, "absent")

\* run_scan up to save_signals, the market having news in any cycle
ReturnSignals ==
    /\ InCycle
    /\ phase = "scan"
    /\ \E b \in {<<>>, SubSeq(MonBatch, 1, 1)} :
          LET r == dedup_signals(find_edges(b, bankroll, MIN_EDGE_ARG), cooldowns, now)
          IN  /\ batch' = b
              /\ signals' = r[1]
              /\ cooldowns' = r[2]
              /\ filtered' = find_edges_log(filtered, b, bankroll, MIN_EDGE_ARG)
    /\ phase' = "signals"
    /\ cursor' = <<1, 1>>
    /\ UNCHANGED <<now, cycles, bankroll, paper, history, db, trades, prices,
                   last, sz, cfg, mon>>

\* time.sleep returns, the next cycle begins a step later
ReturnSleep ==
    /\ mon.pc = "sleep"
    /\ mon' = [mon EXCEPT !.pc = "loop"]
    /\ \E d \in ReturnSteps : now' = now + d
    /\ UNCHANGED <<phase, cycles, bankroll, batch, signals, cooldowns, cursor,
                   paper, history, db, trades, prices, last, sz, cfg, filtered>>

NextReturns ==
    \/ Lock \/ Arm \/ Disarm \/ CheckErrors \/ ReturnSleep
    \/ ReturnSignals \/ ScanOpen \/ ScanExits \/ ScanExitsSave \/ ScanLive
    \/ MonArena \/ MonPlaceOrder \/ MonTrackOrder \/ MonArenaDone
    \/ MonArenaExits \/ MonArenaRow \/ MonArenaTrade

SpecReturns == InitReturns /\ [][NextReturns]_vars

-----------------------------------------------------------------------------
(* Steps of a position *)

IsPaper(pos) == "strategy" \notin DOMAIN pos

\* the namespace a position is stored for
NamespaceOf(pos) == IF IsPaper(pos) THEN "paper" ELSE pos.strategy

\* the exit parameters that apply to a position: the constants of the primary
\* book, or the configuration of the strategy of the row
ExitParams(pos) ==
    IF IsPaper(pos)
    THEN [trailing_stop |-> TRUE, activation |-> TRAILING_STOP_ACTIVATION,
          distance |-> TRAILING_STOP_DISTANCE, timeout_hours |-> TIMEOUT_HOURS]
    ELSE [trailing_stop |-> STRATEGIES[pos.strategy].trailing_stop,
          activation |-> STRATEGIES[pos.strategy].trailing_activation,
          distance |-> STRATEGIES[pos.strategy].trailing_distance,
          timeout_hours |-> STRATEGIES[pos.strategy].timeout_hours]

\* the stored rows of the step, before and after, by their key
RowPairs ==
    {<<db[j], db'[j]>> : j \in DOMAIN db \cap DOMAIN db'}

\* a position before and after the step: an entry of the primary list, or a
\* row that is still the row of the same strategy and entry
Kept ==
    {<<paper[i], paper'[i]>> : i \in 1..Len(paper)}
        \cup {pr \in RowPairs : /\ pr[1].strategy = pr[2].strategy
                                /\ pr[1].entry_time = pr[2].entry_time}

\* the price of the held token the exit check of the step observed
Observed(pos) == current_price(pos.direction, prices'[pos.market_id])

\* the step is an exit check of the book of an open position, and the check
\* observed a price for it
Checked(pr) ==
    /\ pr[1].status = "open"
    /\ last'.op = "check_exits"
    /\ last'.ns = NamespaceOf(pr[1])
    /\ pr[1].market_id \in DOMAIN prices'
    /\ prices'[pr[1].market_id] # NoPrice
    /\ prices'[pr[1].market_id] > 0
    /\ Observed(pr[1]) > 0

\* the step closed the position
Closes(pr) == pr[1].status = "open" /\ pr[2].status = "closed"

\* the kind of an exit reason: the tag without the figures of the exit
ReasonKind(reason) ==
    IF reason = TRAILING_STOP_WITH_DETAILS THEN "TRAILING_STOP"
    ELSE IF reason \in {"TIMEOUT_FLAT", "TIMEOUT_AGED"} THEN "TIMEOUT"
    ELSE reason

-----------------------------------------------------------------------------
(* Strategy isolation and status lifecycle *)

\* the rows of the positions table stored for one strategy
own_rows(rows, name) ==
    [j \in {k \in DOMAIN rows : rows[k].strategy = name} |-> rows[j]]

\* the trades recorded for one strategy
own_trades(trs, name) == SelectSeq(trs, LAMBDA tr : tr.strategy = name)

\* C4: when strategy B opens or closes positions, every position stored for
\* another namespace stays as it was, and what B opens follows from B's
\* configuration, B's own positions and B's own trade history alone
C4_strategy_isolation ==
    [][\A B \in StrategyNames :
          (last'.ns = B /\ last'.op \in {"try_open", "check_exits"}) =>
             /\ \A A \in Namespaces \ {B} : Book(A)' = Book(A)
             /\ (phase = "arena" /\ last'.op = "try_open") =>
                   Book(B)' = get_positions(
                                 run_arena_strategy(STRATEGIES[B], bankroll,
                                     own_rows(db, B), own_trades(trades, B),
                                     batch, now),
                                 "arena", B)]_vars

\* the status changes the lifecycle allows
StatusMoves ==
    {<<"pending", "partial">>, <<"pending", "open">>, <<"partial", "open">>,
     <<"open", "closed">>, <<"pending", "cancelled">>,
     <<"partial", "cancelled">>}

\* the status and the exit fields of a position
Outcome(pos) ==
    <<pos.status, pos.exit_price, pos.exit_time, pos.exit_reason, pos.pnl>>

\* C5: a stored position changes status only along the lifecycle, a simulated
\* position is created open, and no step changes the status or the exit
\* fields of a closed position
C5_status_lifecycle ==
    [][/\ \A i \in 1..Len(paper) :
             /\ i <= Len(paper')
             /\ paper[i].status # paper'[i].status =>
                   <<paper[i].status, paper'[i].status>> \in StatusMoves
             /\ paper[i].status = "closed" =>
                   Outcome(paper'[i]) = Outcome(paper[i])
       /\ \A i \in (Len(paper) + 1)..Len(paper') : paper'[i].status = "open"
       /\ \A j \in DOMAIN db :
             /\ j \in DOMAIN db'
             /\ db[j].status # db'[j].status =>
                   <<db[j].status, db'[j].status>> \in StatusMoves
             /\ db[j].status = "closed" => Outcome(db'[j]) = Outcome(db[j])
       /\ \A j \in DOMAIN db' \ DOMAIN db : db'[j].status = "open"]_vars

-----------------------------------------------------------------------------
(* Exit checks *)

\* the exit conditions in their order of priority
ExitOrder ==
    <<"TAKE_PROFIT", "STOP_LOSS", "TRAILING_STOP", "TIME_TIGHTENED_STOP", "TIMEOUT">>

\* the exit condition holds for a position at the observed price, with the
\* peak already raised to it
Satisfied(kind, pos, current, peak, t) ==
    LET x == ExitParams(pos)
        age == t - pos.entry_time
    IN  CASE kind = "TAKE_PROFIT" -> 100 * current >= pos.target_price
          [] kind = "STOP_LOSS" -> 100 * current <= pos.stop_loss
          [] kind = "TRAILING_STOP" ->
                /\ x.trailing_stop
                /\ trailing_active(pos, peak, x.activation)
                /\ 100 * current <= effective_trail(pos, peak, x.distance)
          [] kind = "TIME_TIGHTENED_STOP" ->
                /\ age > TIGHTEN_AFTER_HOURS * TicksPerHour
                /\ age <= x.timeout_hours * TicksPerHour
                /\ 200 * current <= pos.stop_loss + 100 * pos.entry_price
          [] kind = "TIMEOUT" -> age > x.timeout_hours * TicksPerHour

\* the first satisfied exit condition, or "" when none is
FirstSatisfied(pos, current, peak, t) ==
    LET S == {i \in DOMAIN ExitOrder : Satisfied(ExitOrder[i], pos, current, peak, t)}
    IN  IF S = {} THEN ""
        ELSE ExitOrder[CHOOSE i \in S : \A j \in S : i <= j]

C7_close_records_exit_and_pnl ==
    [][\A pr \in Kept :
          Closes(pr) =>
             LET entry == pr[2].entry_price
                 exit == pr[2].exit_price
             IN  /\ exit = Observed(pr[1])
                 /\ pr[2].exit_time = now
                 /\ pr[2].exit_reason # ""
                 /\ pr[2].pnl = IF pr[2].direction = "BUY_YES"
                                THEN (exit - entry) * pr[2].shares
                                ELSE (entry - exit) * pr[2].shares
                 /\ exit > entry => pr[2].pnl > 0
                 /\ exit < entry => pr[2].pnl < 0]_vars

\* the positions of every book
AllPositions == UNION {Book(ns) : ns \in Namespaces}

\* C8: the peak of a position never decreases and is never below its entry
\* price; an exit check that observes a price raises the peak to it before
\* the exit conditions, and stores the peak whether the position closes or not
C8_peak_running_maximum ==
    [][/\ \A pr \in Kept :
             /\ pr[2].peak_price >= pr[1].peak_price
             /\ Checked(pr) =>
                   pr[2].peak_price = Max(pr[1].peak_price, Observed(pr[1]))
       /\ \A p \in AllPositions' : p.peak_price >= p.entry_price]_vars

\* C8 witness: an exit check left a position open whose peak stands above
\* both its entry price and the price the check observed
C8_witness_peak_kept_above_price ==
    /\ last.op = "check_exits"
    /\ cycles >= 2
    /\ \E p \in OpenBook(last.ns) :
          /\ prices[p.market_id] # NoPrice
          /\ p.peak_price > p.entry_price
          /\ p.peak_price > current_price(p.direction, prices[p.market_id])

\* the effective stop of a position whose trailing stop is active
EffectiveStop(pos) ==
    effective_trail(pos, pos.peak_price, ExitParams(pos).distance)

\* the trailing stop of a position is active at its stored peak
TrailingActive(pos) ==
    /\ ExitParams(pos).trailing_stop
    /\ trailing_active(pos, pos.peak_price, ExitParams(pos).activation)

\* C9: once the trailing stop of a position is active it stays active, and
\* the effective stop is the larger of peak x (1 - distance) and the
\* stop-loss: it is never below the stop-loss and never decreases from one
\* cycle to the next
C9_effective_stop_only_tightens ==
    [][\A pr \in Kept :
          (pr[1].status = "open" /\ TrailingActive(pr[1])) =>
             /\ TrailingActive(pr[2])
             /\ EffectiveStop(pr[2]) >= EffectiveStop(pr[1])
             /\ EffectiveStop(pr[2]) >= pr[2].stop_loss
             /\ EffectiveStop(pr[2])
                   >= pr[2].peak_price * (100 - ExitParams(pr[2]).distance)
             /\ EffectiveStop(pr[2])
                   \in {pr[2].stop_loss,
                        pr[2].peak_price * (100 - ExitParams(pr[2]).distance)}]_vars

\* C9 witness: a position stayed open over two exit checks with its trailing
\* stop active and the stop-loss above peak x (1 - distance)
C9_witness_stop_loss_is_the_floor ==
    /\ last.op = "check_exits"
    /\ cycles >= 2
    /\ \E p \in OpenBook(last.ns) :
          /\ TrailingActive(p)
          /\ p.peak_price * (100 - ExitParams(p).distance) < p.stop_loss

\* the peak, raised to the observed price, has reached the activation
\* fraction of the way from entry to target
ReachedActivation(pos, current) ==
    10000 * (Max(pos.peak_price, current) - pos.entry_price)
        >= ExitParams(pos).activation * (pos.target_price - 100 * pos.entry_price)

\* the observed price is at or below peak x (1 - distance)
DroppedByDistance(pos, current) ==
    100 * current <= Max(pos.peak_price, current) * (100 - ExitParams(pos).distance)

-----------------------------------------------------------------------------
(* Configured limits *)

\* the maximum hold configured for the book of a position, in hours
ConfiguredTimeout(pos) ==
    IF IsPaper(pos) THEN cfg.timeout_hours
    ELSE STRATEGIES[pos.strategy].timeout_hours

\* the cooldown configured for a namespace, in hours
ConfiguredCooldown(ns) ==
    IF ns = "paper" THEN cfg.cooldown_hours ELSE cfg_signal_cooldown_hours

\* the maximum number of open positions configured for a namespace
ConfiguredMaximum(ns) ==
    IF ns = "paper" THEN cfg.max_positions
    ELSE STRATEGIES[ns].max_open_positions

\* C11: an exit check that observes a price for a position older than the
\* configured maximum hold closes it; unless a higher-priority exit fired,
\* the reason is TIMEOUT_FLAT when the price moved less than the threshold
\* from entry and TIMEOUT_AGED otherwise
C11_timeout_closes_flat_or_aged ==
    [][\A pr \in Kept :
          (/\ Checked(pr)
           /\ now - pr[1].entry_time > ConfiguredTimeout(pr[1]) * TicksPerHour) =>
             /\ pr[2].status = "closed"
             /\ ReasonKind(pr[2].exit_reason)
                   \notin {"TAKE_PROFIT", "STOP_LOSS", "TRAILING_STOP",
                           "TIME_TIGHTENED_STOP"} =>
                   pr[2].exit_reason
                      = IF Abs(Observed(pr[1]) - pr[1].entry_price)
                              < TIMEOUT_MOVE_THRESHOLD
                        THEN "TIMEOUT_FLAT" ELSE "TIMEOUT_AGED"]_vars

\* the times at which a namespace closed a position on a market
CloseTimes(ns, market_id) ==
    IF ns = "paper"
    THEN {p.exit_time : p \in {q \in SeqToSet(paper) :
                                  q.market_id = market_id /\ q.status = "closed"}}
    ELSE {trades[i].exit_time : i \in {k \in 1..Len(trades) :
                                          /\ trades[k].strategy = ns
                                          /\ trades[k].market_id = market_id}}

\* the positions a step created in a namespace
Opened(ns) ==
    IF ns = "paper"
    THEN {paper'[i] : i \in (Len(paper) + 1)..Len(paper')}
    ELSE {r \in Book(ns)' : r.status = "open" /\ r \notin Book(ns)}

\* C19: no position is created on a market before the configured cooldown
\* has elapsed since a close of a position on that market in the namespace
C19_cooldown_blocks_reentry ==
    [][\A ns \in Namespaces :
          \A p \in Opened(ns) :
             \A closed_at \in CloseTimes(ns, p.market_id) :
                now - closed_at >= ConfiguredCooldown(ns) * TicksPerHour]_vars

\* C20: a namespace never holds more open positions than its configured
\* maximum
C20_open_positions_within_maximum ==
    \A ns \in Namespaces :
        Cardinality(OpenBook(ns)) <= ConfiguredMaximum(ns)

-----------------------------------------------------------------------------
(* The monitor and its cycles *)

\* the call of run_scan of the monitor is over: main is past its handlers
CycleOver == mon.pc \in {"check", "sleep", "loop"} /\ cycles > 0

\* the orders placed at the exchange that no row of the positions table names
Untracked == {o \in mon.orders : \A i \in DOMAIN db : db[i].order_id # o}

\* C12: once a cycle has ended, normally, by an exception or by the cycle
\* timeout, every order placed at the exchange has its position record: no
\* order is left placed without a tracked row.
C12_no_order_without_record ==
    CycleOver => Untracked = {}

\* C13: at most one scan cycle executes at any time: the monitor and a second
\* scanner process are never both inside run_scan, and a second monitor that
\* cannot take the lock runs no cycle.
C13_one_cycle_at_a_time ==
    /\ ~(InCycle /\ OtherInCycle)
    /\ mon.lock = "main" => mon.other # "monitor_cycle"
    /\ mon.lock = "other" => mon.pc \in {"start", "refused"}

\* C14: the alarm never ends the process: it is never armed once the guarded
\* part of the loop is left, so it cannot fire before or during the sleep,
\* and a cycle the alarm cut short is counted as a failure.
C14_alarm_stays_inside_the_guard ==
    /\ mon.pc # "crashed"
    /\ mon.pc \in {"check", "sleep"} => ~mon.alarm
    /\ mon.pc = "check" /\ mon.timed_out => mon.errors > 0

\* the step that ends a cycle of the monitor
CycleEnds == InCycle /\ mon'.pc = "check"

\* C15: the monitor process ends exactly when the count of consecutive failed
\* cycles reaches max_consecutive_errors: a cycle that failed or timed out
\* adds one, a cycle that succeeded resets the count, no cycle starts with
\* the count at the maximum, and nothing else but an interrupt ends the loop.
C15_exit_at_max_consecutive_errors ==
    [][/\ CycleEnds =>
              mon'.errors = IF phase # "return" \/ mon'.timed_out
                            THEN mon.errors + 1 ELSE 0
       /\ mon.pc = "loop" /\ mon'.pc = "cycle" =>
              mon.errors < max_consecutive_errors
       /\ mon.pc = "check" /\ mon'.pc = "exited" =>
              mon.errors = max_consecutive_errors
       /\ mon.pc = "check" /\ mon'.pc = "sleep" =>
              mon.errors < max_consecutive_errors
       /\ mon'.pc # "crashed"]_vars

\* the closes that are persisted in part: a history record of the primary
\* book whose position is stored open, a closed position without a history
\* record, a closed arena row without its trade
HalfClosed ==
    \/ \E h \in SeqToSet(history) : \E i \in 1..Len(paper) :
          paper[i].id = h.id /\ paper[i].status = "open"
    \/ \E i \in 1..Len(paper) :
          paper[i].status = "closed" /\ paper[i] \notin SeqToSet(history)
    \/ \E i \in DOMAIN db :
          /\ db[i].mode = "arena"
          /\ db[i].status = "closed"
          /\ trade_of(db[i]) \notin SeqToSet(trades)

\* the steps of run_scan that belong to an exit check
ExitStages == {"exits", "exits_save", "live", "arena_exits", "arena_row", "arena_trade"}

\* the monitor is interrupted inside a cycle; the alarm cuts a cycle short
Cancelled == InCycle /\ mon'.pc = "stopped"
TimedOut == InCycle /\ ~mon.timed_out /\ mon'.timed_out

\* C16: when the monitor is interrupted or the timeout aborts the cycle while
\* an exit check is in flight, no close is left half persisted: for every
\* position the close, the stored position and the history or trade record
\* are all there or none is.
C16_exit_check_not_cut_in_half ==
    [][(Cancelled \/ TimedOut) /\ Stage \in ExitStages => ~HalfClosed']_vars

\* the steps of run_scan that evaluate the estimates and open positions
OpeningStages == {"signals", "arena", "live_order", "live_track"}

\* an exception is raised at a step of run_scan
Raises == InCycle /\ mon'.raised # mon.raised

\* C17: an exception while one signal is opened on the primary path, or while
\* one estimate or strategy is evaluated in run_arena, does not stop the rest
\* of the cycle: the loop it was raised in goes on with what remains.
C17_failure_does_not_stop_the_loop ==
    [][Raises /\ Stage \in OpeningStages =>
           /\ mon'.pc = "cycle"
           /\ phase' = IF Stage = "signals" THEN "signals" ELSE "arena"]_vars

\* the books that hold open positions
OpenBooks ==
    {"paper" : i \in {j \in 1..Len(paper) : paper[j].status = "open"}}
        \cup {"live" : i \in live_ids(db, {"open"})}
        \cup {name \in StrategyNames : open_ids(db, name) # {}}

\* C18: in every cycle the exit check runs for every book that holds open
\* positions, the primary book, the live book and every arena strategy,
\* whether or not the evaluation of the signals or the opening of positions
\* failed earlier in the cycle.
C18_exit_checks_run_every_cycle ==
    [][CycleEnds /\ ~mon'.timed_out /\ mon'.raised \subseteq OpeningStages \cup {"scan"} =>
           OpenBooks' \subseteq mon'.checked]_vars

-----------------------------------------------------------------------------
(* Live mirror: the live order run_arena places for a new baseline position *)

\* real balances of the live account, in cents
MirrorBalances == {0, 500, 1000, 1499, 1500, 50000, 100000, 150000}

\* the estimates the mirror is tried on: YES prices, model probabilities and
\* confidences that give paper positions from a few dollars to the cap
MirrorEstimates ==
    [market_id : {"m1"}, current_price : {3, 5, 40, 60, 95},
     ai_probability : {10, 45, 52, 80}, confidence : {60, 90}]

\* the real cost without the ceiling of cfg.max_order_size
real_cost_uncapped(cost, real_balance, bank, max_order_size) ==
    <<cost * real_balance, bank>>

\* real_cost = min(paper_pos["cost"] * scale, cfg.max_order_size) with
\* scale = real_balance / bankroll, as the fraction <<cents, divisor>>
real_cost_at(cost, real_balance, bank, max_order_size) ==
    IF cost * real_balance > max_order_size * bank
    THEN <<max_order_size, 1>>
    ELSE <<cost * real_balance, bank>>

\* "if real_cost >= 1.0": the live order is asked for
mirror_submitted(size) == size[1] >= 100 * size[2]

\* one pass of the loop body of run_arena on an empty table: try_open, then
\* the live mirror; sz records what open_live_position was called with
MirrorArena ==
    /\ sz.op = "none"
    /\ \E est \in MirrorEstimates, real_balance \in MirrorBalances,
          name \in StrategyNames, live_trading \in BOOLEAN, clob_ids \in {0, 2} :
          LET config == run_config(cfg, name)
              sig == arena_signal(config, est)
              paper_pos == IF sig = NoSignal THEN NoPos
                           ELSE try_open(config, bankroll, db, trades,
                                         sig.market_id, sig.direction,
                                         sig.entry_price, sig.ai_prob,
                                         sig.confidence, now)
              mirrored == /\ live_trading
                          /\ name = "baseline"
                          /\ paper_pos # NoPos
                          /\ clob_ids >= 2
              size == IF mirrored
                      THEN real_cost_at(paper_pos.cost, real_balance, bankroll,
                                        cfg_max_order_size)
                      ELSE <<0, 1>>
          IN  /\ sz' = [op |-> "mirror", name |-> name,
                        live_trading |-> live_trading, clob_ids |-> clob_ids,
                        paper_cost |-> IF paper_pos = NoPos THEN None
                                       ELSE paper_pos.cost,
                        real_balance |-> real_balance,
                        called |-> mirrored /\ mirror_submitted(size),
                        size_usd |-> size]
              /\ db' = IF paper_pos # NoPos THEN upsert_position(db, paper_pos)
                       ELSE db
    /\ last' = [op |-> "try_open", ns |-> "arena"]
    /\ UNCHANGED <<now, phase, cycles, bankroll, batch, signals, cooldowns,
                   cursor, paper, history, trades, prices, cfg, mon, filtered>>

NextMirror == MirrorArena

SpecMirror == Init /\ [][NextMirror]_vars

-----------------------------------------------------------------------------
(* Order placement: src/src/order_executor.py, place_limit_order on its own *)

\* what get_order_book gives: an exception, a book without quotes on the
\* side of the order, or the best quote of that side in cents
NoBook == [kind |-> "error", best |-> None]
EmptyBook == [kind |-> "empty", best |-> None]
Quote(best) == [kind |-> "quote", best |-> best]

\* the price the order is placed at: the best quote, the asked price when the
\* book has no quote, the asked price moved by two cents when the book could
\* not be read
order_price(side, price, book) ==
    IF book.kind = "quote" THEN book.best
    ELSE IF book.kind = "empty" THEN price
    ELSE IF side = "BUY" THEN Min(price + 2, 99)
    ELSE Max(price - 2, 1)

\* "if spread > 0.10": the quote is more than ten cents away
wide_spread(side, price, book) ==
    /\ book.kind = "quote"
    /\ IF side = "BUY" THEN book.best - price > 10 ELSE price - book.best > 10

\* place_limit_order with the three limits it reads: the outcome and the
\* order as it was handed to the exchange; post_ok tells whether
\* create_order and post_order went through
place_order(max_order_size, daily_loss_limit, max_positions, side, price, size, book, daily_pnl, balance, open_count, post_ok) ==
    LET final == order_price(side, price, book)
        cost == size * final
        refused(why) == [posted |-> FALSE, result |-> None, reason |-> why,
                         price |-> final, size |-> size]
    IN  IF wide_spread(side, price, book)
        THEN [refused("wide_spread") EXCEPT !.price = price]
        ELSE IF cost > max_order_size THEN refused("order_too_large")
        ELSE IF daily_pnl < 0 - daily_loss_limit THEN refused("daily_loss")
        ELSE IF 100 * cost > 95 * balance THEN refused("balance")
        ELSE IF open_count >= max_positions THEN refused("max_positions")
        ELSE [posted |-> TRUE, result |-> IF post_ok THEN 1 ELSE None,
              reason |-> IF post_ok THEN "" ELSE "order_failed",
              price |-> final, size |-> size]

\* the same with the limits of a fixed table instead of those of the Config
place_limit_order_fixed_limits(limits, side, price, size, book, daily_pnl, balance, open_count, post_ok) ==
    place_order(2000, 4000, 8, side, price, size, book, daily_pnl, balance,
                open_count, post_ok)

\* place_limit_order: the limits are cfg.max_order_size, cfg.daily_loss_limit
\* and cfg.max_positions
place_limit_order(limits, side, price, size, book, daily_pnl, balance, open_count, post_ok) ==
    place_order(limits.max_order_size, limits.daily_loss_limit,
                limits.max_positions, side, price, size, book, daily_pnl,
                balance, open_count, post_ok)

\* the limits of the default Config and those of the tests
OrderLimits ==
    {[max_order_size |-> cfg_max_order_size, daily_loss_limit |-> 3000,
      max_positions |-> 4],
     [max_order_size |-> 1000, daily_loss_limit |-> 2000, max_positions |-> 2]}

OrderPrices == {1, 40, 48, 60, 98}
OrderSizes == {5, 20, 30, 150}
OrderBooks == {NoBook, EmptyBook} \cup {Quote(b) : b \in {39, 50, 52, 61, 75}}
OrderDailyPnl == {-3001, -3000, -2001, -2000, 0}
OrderBalances == {0, 1578, 1579, 100000}
OrderOpenCounts == {0, 1, 2, 3, 4}

\* place_limit_order is called once
PlaceOrder ==
    /\ sz.op = "none"
    /\ \E limits \in OrderLimits, side \in {"BUY", "SELL"}, price \in OrderPrices,
          size \in OrderSizes, book \in OrderBooks, daily_pnl \in OrderDailyPnl,
          balance \in OrderBalances, open_count \in OrderOpenCounts,
          post_ok \in BOOLEAN :
          sz' = [op |-> "place_limit_order", limits |-> limits, side |-> side,
                 price |-> price, book |-> book, daily_pnl |-> daily_pnl,
                 balance |-> balance, open_count |-> open_count,
                 out |-> place_limit_order(limits, side, price, size, book,
                                           daily_pnl, balance, open_count,
                                           post_ok)]
    /\ last' = [op |-> "place_limit_order", ns |-> "live"]
    /\ UNCHANGED <<now, phase, cycles, bankroll, batch, signals, cooldowns,
                   cursor, paper, history, db, trades, prices, cfg, mon,
                   filtered>>

NextOrders == PlaceOrder

SpecOrders == Init /\ [][NextOrders]_vars

-----------------------------------------------------------------------------
(* External estimates: src/src/probability_engine.py, merge_llm_estimates *)

\* In this section current_price, current_yes and estimated_probability are
\* in cents, ai_probability of an estimate is in 1/10000 (round(., 4)),
\* confidence is in percent and cfg.ai_estimate_discount is in 1/1000.

\* the mutant of discount_ai_probability: the external value is taken whole
discount_ai_probability_undiscounted(ai_prob, market_price) ==
    Max(200, Min(9800, 100 * ai_prob))

\* discount_ai_probability: the external value moved towards the market
\* price, rounded to 4 decimals and clamped to [0.02, 0.98]
discount_ai_probability(ai_prob, market_price) ==
    LET move == ai_prob - market_price
        discounted == 1000 * market_price + move * cfg.ai_estimate_discount
    IN  Max(200, Min(9800, RoundHalfEven(discounted, 10)))

\* merge_llm_estimates: the signals are merged one after the other into the
\* estimates, in the order of estimates_by_id
RECURSIVE merge_llm_estimates(_, _)
merge_llm_estimates(keyword_estimates, llm_signals) ==
    IF llm_signals = <<>> THEN keyword_estimates
    ELSE LET sig == Head(llm_signals)
             raw_ai == sig.estimated_probability
             known == \E i \in 1..Len(keyword_estimates) :
                         keyword_estimates[i].market_id = sig.market_id
             overridden ==
                 [i \in 1..Len(keyword_estimates) |->
                     LET est == keyword_estimates[i]
                     IN  IF est.market_id # sig.market_id THEN est
                         ELSE [est EXCEPT
                                 !.ai_probability =
                                     discount_ai_probability(raw_ai, est.current_price),
                                 !.confidence = Max(est.confidence, sig.confidence),
                                 !.raw_ai_probability = raw_ai,
                                 !.source = "LLM+keywords"]]
             added == Append(keyword_estimates,
                        [market_id |-> sig.market_id,
                         current_price |-> sig.current_yes,
                         ai_probability |->
                             discount_ai_probability(raw_ai, sig.current_yes),
                         confidence |-> sig.confidence,
                         raw_ai_probability |-> raw_ai,
                         source |-> "LLM"])
         IN  merge_llm_estimates(IF known THEN overridden ELSE added,
                                 Tail(llm_signals))

MergeDiscounts == {0, 333, 500, 1000}
MergePrices == {1, 2, 50, 98, 99}
MergeExternals == {0, 1, 55, 90, 100}
MergeKeywordConfidences == {40, 90}
MergeExternalConfidences == {30, 85}

MergeConfigs ==
    {[max_positions |-> 4, cooldown_hours |-> 1, timeout_hours |-> 24,
      strategy_overrides |-> {}, ai_estimate_discount |-> d] :
        d \in MergeDiscounts}

\* the keyword estimate of compute_estimates for a market: the model
\* probability 0.60 at the given market price and confidence
KeywordEstimate(market_id, market_price, confidence) ==
    [market_id |-> market_id, current_price |-> market_price,
     ai_probability |-> 6000, confidence |-> confidence,
     raw_ai_probability |-> None, source |-> "keywords"]

\* a signal of the LLM analysis
LlmSignal(market_id, current_yes, estimated_probability, confidence) ==
    [market_id |-> market_id, current_yes |-> current_yes,
     estimated_probability |-> estimated_probability, confidence |-> confidence]

InitMerge == InitStores /\ cfg \in MergeConfigs /\ mon = MonitorOff

\* run_scan merges the LLM signals of a cycle into its keyword estimates:
\* none, one or two keyword estimates, one signal on m1 and at most one more
MergeEstimates ==
    /\ sz.op = "none"
    /\ \E market_price \in MergePrices, ext \in MergeExternals,
          kc \in MergeKeywordConfidences, ec \in MergeExternalConfidences :
       \E keyword_estimates \in
              {<<>>, <<KeywordEstimate("m1", market_price, kc)>>,
               <<KeywordEstimate("m2", 50, kc),
                 KeywordEstimate("m1", market_price, kc)>>},
          more \in {<<>>, <<LlmSignal("m2", 50, ext, 85)>>,
                    <<LlmSignal("m1", market_price, 90, 30)>>} :
          LET llm_signals == <<LlmSignal("m1", market_price, ext, ec)>> \o more
          IN  sz' = [op |-> "merge_llm_estimates", given |-> keyword_estimates,
                     llm |-> llm_signals,
                     merged |-> merge_llm_estimates(keyword_estimates, llm_signals)]
    /\ UNCHANGED <<now, phase, cycles, bankroll, batch, signals, cooldowns,
                   cursor, paper, history, db, trades, prices, last, cfg, mon,
                   filtered>>

NextMerge == MergeEstimates

SpecMerge == InitMerge /\ [][NextMerge]_vars

-----------------------------------------------------------------------------
(* Alerts: dedup_signals called cycle after cycle on the stored cooldowns *)

\* the calls of dedup_signals that are followed
MaxAlertCycles == 3

\* the configurations: the defaults, and the config of the tests with a
\* cooldown of two hours and three alerts
AlertConfigs ==
    {[max_positions |-> 4, cooldown_hours |-> 1, timeout_hours |-> 24,
      strategy_overrides |-> {}, signal_cooldown_hours |-> 4,
      max_alerts_per_hour |-> 5],
     [max_positions |-> 4, cooldown_hours |-> 1, timeout_hours |-> 24,
      strategy_overrides |-> {}, signal_cooldown_hours |-> 2,
      max_alerts_per_hour |-> 3]}

\* a trade signal as dedup_signals reads it, the edge in percent
AlertSignal(market_id, direction, edge) ==
    [market_id |-> market_id, direction |-> direction, edge |-> edge]

\* six signals with six keys, by falling edge
AlertSix ==
    <<AlertSignal("m1", "BUY_YES", 12), AlertSignal("m2", "BUY_YES", 11),
      AlertSignal("m3", "BUY_YES", 10), AlertSignal("m1", "BUY_NO", 9),
      AlertSignal("m2", "BUY_NO", 8), AlertSignal("m3", "BUY_NO", 7)>>

\* the lists find_edges may hand over
AlertLists ==
    {<<>>, AlertSix, SubSeq(AlertSix, 1, 1), SubSeq(AlertSix, 6, 6),
     SubSeq(AlertSix, 3, 6),
     <<AlertSix[6], AlertSignal("m3", "BUY_NO", 6)>>}

\* the hours between two calls
AlertGaps == {1, 3, 5}

InitAlerts ==
    /\ InitStores
    /\ cfg \in AlertConfigs
    /\ mon = MonitorOff

\* dedup_signals is called; sz keeps what it was given, what it returned and
\* the cooldowns it found
AlertDedup ==
    /\ phase = "idle"
    /\ cycles < MaxAlertCycles
    /\ \E given \in AlertLists :
          LET r == dedup_signals(given, cooldowns, now)
          IN  /\ signals' = r[1]
              /\ cooldowns' = r[2]
              /\ sz' = [op |-> "dedup_signals", given |-> given,
                        found |-> cooldowns]
    /\ phase' = "signals"
    /\ cycles' = cycles + 1
    /\ last' = [op |-> "dedup_signals", ns |-> ""]
    /\ UNCHANGED <<now, bankroll, batch, cursor, paper, history, db, trades,
                   prices, cfg, mon, filtered>>

\* the cycle ends and the next one begins some hours later
AlertSleep ==
    /\ phase = "signals"
    /\ \E h \in AlertGaps : now' = now + h * TicksPerHour
    /\ phase' = "idle"
    /\ UNCHANGED <<cycles, bankroll, batch, signals, cooldowns, cursor, paper,
                   history, db, trades, prices, last, sz, cfg, mon, filtered>>

NextAlerts == AlertDedup \/ AlertSleep

SpecAlerts == InitAlerts /\ [][NextAlerts]_vars

-----------------------------------------------------------------------------
(* Strategy parameters *)

\* C30: the overrides of cfg.strategy_overrides are the parameters of every
\* arena operation of the run: the entry evaluation of run_arena gives what
\* try_open gives under the overridden parameters, and the exit check of the
\* strategy leaves every open position as check_exits leaves it under the
\* same overridden parameters (timeout_hours among them)
C30_overrides_used_by_entries_and_exits ==
    [][(phase = "life" /\ last.ns \in StrategyNames) =>
          /\ last'.op = "try_open" =>
                \E est \in LifeEstimates :
                   db' = run_arena_strategy(run_config(cfg, last.ns), bankroll,
                                            db, trades, <<est>>, now)
          /\ last'.op = "check_exits" =>
                \A j \in open_ids(db, last.ns) :
                   db'[j] = StrategyRunner_check_one(run_config(cfg, last.ns),
                                db[j], prices'[LifeMarket], now)]_vars

-----------------------------------------------------------------------------
(* Entry evaluation *)

\* an estimate was evaluated and rejected: calculate_edge returned None, or
\* the strategy's evaluation in run_arena ended without a position
Rejected ==
    /\ sz.op \in {"calculate_edge", "run_arena"}
    /\ sz.sig = NoSignal \/ (sz.op = "run_arena" /\ sz.pos = NoPos)

\* filtered_signals.json holds an entry with the market, a reason and the
\* figures of the evaluated estimate
Audited ==
    \E i \in DOMAIN filtered :
        /\ filtered[i].market_id = sz.est.market_id
        /\ filtered[i].reason # ""
        /\ filtered[i].ai_probability = sz.est.ai_probability
        /\ filtered[i].market_price = sz.est.current_price
        /\ filtered[i].confidence = sz.est.confidence

\* C26: every rejection of an estimate, by calculate_edge and by the entry
\* evaluation of an arena strategy (run_arena, try_open), has written an audit
\* record with the market, the reason and the figures
C26_every_rejection_is_audited == Rejected => Audited

\* calculate_edge returned a TradeSignal
Signalled == sz.op = "calculate_edge" /\ sz.sig # NoSignal

\* C28, as stated: every returned TradeSignal has 0 <= kelly_fraction <=
\* max_kelly_fraction and position_size <= max_kelly_fraction x bankroll
C28_size_within_exact_kelly_cap ==
    Signalled =>
        /\ 0 <= sz.sig.kelly_fraction
        /\ sz.sig.kelly_fraction <= 100 * cfg_max_kelly_fraction
        /\ 100 * sz.sig.position_size <= cfg_max_kelly_fraction * sz.bank

\* C28, amended: every returned TradeSignal has 0 <= kelly_fraction <=
\* max_kelly_fraction and position_size <= max_kelly_fraction x bankroll
\* rounded to the nearest cent
C28_size_within_rounded_kelly_cap ==
    Signalled =>
        /\ 0 <= sz.sig.kelly_fraction
        /\ sz.sig.kelly_fraction <= 100 * cfg_max_kelly_fraction
        /\ sz.sig.position_size
              <= RoundHalfEven(cfg_max_kelly_fraction * sz.bank, 100)

\* C28 witness: the estimate 0.90 against 0.50 at confidence 1.0, whose Kelly
\* fraction of 0.8 is clamped: the signal carries the whole capped size
C28_witness_clamped ==
    /\ Signalled
    /\ sz.est.ai_probability = 90 /\ sz.est.current_price = 50
    /\ sz.est.confidence = 100
    /\ sz.sig.kelly_fraction = 100 * cfg_max_kelly_fraction
    /\ sz.sig.position_size = RoundHalfEven(cfg_max_kelly_fraction * sz.bank, 100)

\* the min_edge a call of calculate_edge was given, in 1/10^7
GivenMinEdge ==
    100000 * (IF sz.min_edge = None THEN cfg_min_edge_threshold ELSE sz.min_edge)

\* the larger of the two fee-adjusted edges of the evaluated estimate
BestEdge == Max(fee_adjusted_yes(1, sz.est), fee_adjusted_no(1, sz.est))

\* C29: calculate_edge returns a decision only for the side of the larger
\* fee-adjusted edge and only when that edge is at least min_edge; when no
\* side clears min_edge it rejects with reason edge_below_threshold; 0.51
\* against 0.50 is rejected at min_edge 0.02, 0.55 against 0.50 is rejected
\* at min_edge 0.10 and 0.70 against 0.50 is accepted at min_edge 0.10
C29_decision_only_above_min_edge ==
    sz.op = "calculate_edge" =>
        /\ sz.sig # NoSignal =>
              /\ BestEdge >= GivenMinEdge
              /\ BestEdge = IF sz.sig.direction = "BUY_YES"
                            THEN fee_adjusted_yes(1, sz.est)
                            ELSE fee_adjusted_no(1, sz.est)
              /\ sz.sig.edge = RoundHalfEven(BestEdge, 1000)
        /\ (BestEdge < GivenMinEdge /\ hours_to_expiry(sz.est) \notin {0}) =>
              /\ sz.sig = NoSignal
              /\ filtered # <<>>
              /\ filtered[Len(filtered)].reason = "edge_below_threshold"
        /\ (sz.est.current_price = 50 /\ hours_to_expiry(sz.est) = None) =>
              /\ (sz.est.ai_probability = 51 /\ sz.min_edge \in {None, 2}) =>
                    sz.sig = NoSignal
              /\ (sz.est.ai_probability = 55 /\ sz.min_edge = 10) =>
                    sz.sig = NoSignal
              /\ (sz.est.ai_probability = 70 /\ sz.min_edge = 10) =>
                    sz.sig # NoSignal

\* C29 witness: 0.70 against 0.50 is accepted at min_edge 0.10 as BUY_YES
C29_witness_accepted_above_min_edge ==
    /\ Signalled
    /\ sz.est.ai_probability = 70 /\ sz.est.current_price = 50
    /\ sz.min_edge = 10
    /\ sz.sig.direction = "BUY_YES"
    /\ sz.sig.edge >= 1000

\* an entry path was run on an estimate and created a position
Entered == sz.op \in {"open_position", "try_open"} /\ sz.cost > 0

\* C27: no position is created with a direction-adjusted entry price below
\* 0.01 or above 0.99, on the primary path (calculate_edge, open_position)
\* and on the arena path (run_arena, try_open), whatever the edge and the
\* min_edge
C27_no_entry_at_degenerate_price ==
    Entered => (PriceUnit <= sz.entry_price /\ sz.entry_price <= 99 * PriceUnit)

\* C27 witness: calculate_edge returned a signal at an entry price above
\* 0.99 and open_position created no position for it
C27_witness_degenerate_signal_refused ==
    /\ sz.op = "open_position"
    /\ sz.passed
    /\ sz.entry_price > 99 * PriceUnit
    /\ sz.cost = 0

-----------------------------------------------------------------------------
(* Correlated exposure *)

\* the summed cost of the open positions of a strategy whose question is in
\* the keyword family kw
FamilyCost(rows, name, kw) ==
    SumCost({p \in get_positions(rows, "arena", name) :
                p.status = "open" /\ kw \in QuestionFamilies(p.market_id)})

\* C21: an entry of a strategy on a market is blocked when the summed cost of
\* that strategy's open positions in a keyword family of the market exceeds
\* bankroll x correlated_limit_pct; when every family of the market is below
\* the limit the guard does not block, whatever other families and other
\* strategies hold: the entry ends as it ends without the guard
C21_family_limit_blocks_only_its_family ==
    [][last'.op = "try_open" =>
          LET name == last'.ns
              m == batch[cursor[2]].market_id
              config == run_config(cfg, name)
          IN  /\ (\E kw \in QuestionFamilies(m) :
                     100 * FamilyCost(db, name, kw)
                        > bankroll * config.correlated_limit_pct)
                    => db' = db
              /\ (\A kw \in QuestionFamilies(m) :
                     100 * FamilyCost(db, name, kw)
                        < bankroll * config.correlated_limit_pct)
                    => db' = run_arena_strategy(
                                [config EXCEPT !.correlated_limit_pct = 101],
                                bankroll, db, trades, <<batch[cursor[2]]>>,
                                now)]_vars

\* C21 witness: the second strategy was refused a bitcoin market it does not
\* hold, with room left in its book, its bitcoin family above the limit, and
\* while it holds a position in the trump family opened after the bitcoin
\* family was full
C21_witness_blocked_by_family ==
    /\ phase = "families"
    /\ last.op = "try_open"
    /\ last.ns = "aggressive"
    /\ cursor[2] > 1
    /\ batch[cursor[2] - 1].market_id = "b4"
    /\ ~ \E p \in get_positions(db, "arena", "aggressive") : p.market_id = "b4"
    /\ Cardinality(get_positions(db, "arena", "aggressive"))
          < STRATEGIES["aggressive"].max_open_positions
    /\ 100 * FamilyCost(db, "aggressive", "btc")
          > bankroll * STRATEGIES["aggressive"].correlated_limit_pct
    /\ \E p \in get_positions(db, "arena", "aggressive") : p.market_id = "t1"
    /\ 100 * FamilyCost(db, "baseline", "btc")
          > bankroll * STRATEGIES["baseline"].correlated_limit_pct

-----------------------------------------------------------------------------
(* Live mirror *)

\* a baseline position was opened with live trading on and both token ids
Mirrored ==
    /\ sz.op = "mirror"
    /\ sz.live_trading
    /\ sz.name = "baseline"
    /\ sz.clob_ids >= 2
    /\ sz.paper_cost # None

\* the paper cost scaled by real balance / bankroll is above the ceiling
AboveCeiling == sz.paper_cost * sz.real_balance > cfg_max_order_size * bankroll

\* C22: open_live_position is called only for a mirrored baseline position,
\* with the size min(paper cost * real balance / bankroll, max_order_size);
\* it is not called when that size is below one dollar, and the size it is
\* called with never exceeds max_order_size
C22_live_size_scaled_capped_and_floored ==
    sz.op = "mirror" =>
        /\ sz.called => Mirrored
        /\ Mirrored =>
              /\ AboveCeiling => sz.size_usd = <<cfg_max_order_size, 1>>
              /\ ~AboveCeiling =>
                    sz.size_usd = <<sz.paper_cost * sz.real_balance, bankroll>>
              /\ sz.called <=> sz.size_usd[1] >= 100 * sz.size_usd[2]
              /\ sz.size_usd[1] <= cfg_max_order_size * sz.size_usd[2]

\* C22 witness: with half the bankroll on the live account a paper position
\* whose scaled cost is above the ceiling was mirrored at the ceiling
C22_witness_scaled_and_capped ==
    /\ Mirrored
    /\ sz.called
    /\ 2 * sz.real_balance = bankroll
    /\ AboveCeiling
    /\ sz.size_usd = <<cfg_max_order_size, 1>>

-----------------------------------------------------------------------------
(* Failed live orders *)

\* the step is a failed placement of the live order: the monitor is inside
\* open_live_position, stays in the cycle, and no order is tracked by it
PlacementFails ==
    /\ InCycle
    /\ phase \in {"live_order", "live_track"}
    /\ mon'.pc = "cycle"
    /\ phase' # "live_track"
    /\ last' = last

\* C23: when the placement of the live order fails, by an exception or by a
\* refused order, the table is left as it was, the baseline position just
\* recorded is still open, and run_arena goes on with the next estimate
C23_failed_live_order_keeps_paper_position ==
    [][PlacementFails =>
          LET key == pos_id(batch[cursor[2]].market_id, now)
          IN  /\ db' = db
              /\ key \in DOMAIN db'
              /\ db'[key].strategy = "baseline"
              /\ db'[key].status = "open"
              /\ phase' = "arena"
              /\ batch' = batch
              /\ cursor' = <<cursor[1], cursor[2] + 1>>]_vars

\* C23 witness: in the first cycle the placement raised an exception, no live
\* position is stored, the baseline position is open, and a later strategy
\* has opened a position of its own
C23_witness_cycle_went_on_after_failure ==
    /\ InCycle
    /\ cycles = 1
    /\ mon.raised \cap {"live_order", "live_track"} # {}
    /\ get_positions(db, "live", "") = {}
    /\ \E p \in get_positions(db, "arena", "baseline") : p.status = "open"
    /\ \E q \in get_positions(db, "arena", "sniper") : q.status = "open"
    /\ last.op = "try_open"
    /\ last.ns = "sniper"

-----------------------------------------------------------------------------
(* Order placement *)

\* the four conditions on the order as it would be posted
WithinLimits ==
    /\ sz.out.size * sz.out.price <= sz.limits.max_order_size
    /\ sz.daily_pnl >= 0 - sz.limits.daily_loss_limit
    /\ sz.out.size * sz.out.price <= sz.balance
    /\ sz.open_count < sz.limits.max_positions

-----------------------------------------------------------------------------
(* Live positions per market *)

\* the live rows that are not closed or cancelled
NonTerminal ==
    {p \in get_positions(db, "live", "") :
        p.status \in {"pending", "partial", "open"}}

\* C25: the live namespace never holds two positions on one market that are
\* pending, partial or open
C25_one_live_position_per_market ==
    \A p, q \in NonTerminal : p.market_id = q.market_id => p = q

-----------------------------------------------------------------------------
(* Markets close to expiry *)

\* calculate_edge was called on an estimate whose market expires in 1 hour or
\* more and in less than 6
ExpiresSoon ==
    /\ sz.op = "calculate_edge"
    /\ hours_to_expiry(sz.est) # None
    /\ hours_to_expiry(sz.est) >= 1 /\ hours_to_expiry(sz.est) < 6

\* C33: calculate_edge rejects every estimate whose market expires in less
\* than 1 hour, whatever its edge, with reason expiring_<1h; for a market
\* expiring in 1 to 6 hours a decision is returned only if the fee-adjusted
\* edge of its side is at least 0.05 and at least the min_edge given
C33_short_expiry_needs_raised_edge ==
    sz.op = "calculate_edge" =>
        /\ hours_to_expiry(sz.est) = 0 =>
              /\ sz.sig = NoSignal
              /\ filtered # <<>>
              /\ filtered[Len(filtered)].reason = "expiring_<1h"
        /\ (ExpiresSoon /\ sz.sig # NoSignal) =>
              /\ BestEdge >= 5 * 100000
              /\ BestEdge >= GivenMinEdge
              /\ sz.sig.edge >= 500

\* C33 witness: 0.55 against 0.50 three hours before expiry at min_edge 0.02:
\* the fee-adjusted edge 0.0485 clears 0.02 and not the raised 0.05, and the
\* estimate is rejected
C33_witness_rejected_below_raised_edge ==
    /\ ExpiresSoon
    /\ sz.est.ai_probability = 55 /\ sz.est.current_price = 50
    /\ sz.min_edge = 2
    /\ BestEdge >= GivenMinEdge /\ BestEdge < 5 * 100000
    /\ sz.sig = NoSignal
    /\ filtered[Len(filtered)].reason = "edge_below_threshold"

-----------------------------------------------------------------------------
(* Take-profit target at open *)

\* open_position created a position on the empty primary book
OpenedPrimary == Sized /\ sz.op = "open_position"

\* the positions open_position creates at entry 0.40 for one model
\* probability and one bankroll at confidence 0.80 and at confidence 0.50
PairAt40(ai_probability, bank) ==
    <<open_position(<<>>, 1, "m1", "BUY_YES", 40, ai_probability, bank, 80, 0),
      open_position(<<>>, 1, "m1", "BUY_YES", 40, ai_probability, bank, 50, 0)>>

-----------------------------------------------------------------------------
(* External estimates *)

\* merge_llm_estimates merged exactly one signal into the keyword estimate
\* i of the call
MergedOnce(i) ==
    /\ sz.op = "merge_llm_estimates"
    /\ i \in 1..Len(sz.given)
    /\ Cardinality({j \in 1..Len(sz.llm) :
                       sz.llm[j].market_id = sz.given[i].market_id}) = 1

\* the signal merged into the keyword estimate i
SignalFor(i) ==
    sz.llm[CHOOSE j \in 1..Len(sz.llm) :
               sz.llm[j].market_id = sz.given[i].market_id]

\* x lies between a and b, the ends included
Between(x, a, b) == Min(a, b) <= x /\ x <= Max(a, b)

\* C35 as stated: the merged probability is market_price + (external -
\* market_price) x discount (to 4 decimals) and lies between the market price
\* and the external value, and the merged confidence is the maximum of the
\* keyword confidence and the external confidence
C35_discounted_between_market_and_external ==
    \A i \in 1..3 : MergedOnce(i) =>
        LET est == sz.given[i]
            sig == SignalFor(i)
        IN  /\ sz.merged[i].ai_probability
                  = RoundHalfEven(1000 * est.current_price
                        + (sig.estimated_probability - est.current_price)
                            * cfg.ai_estimate_discount, 10)
            /\ Between(sz.merged[i].ai_probability, 100 * est.current_price,
                       100 * sig.estimated_probability)
            /\ sz.merged[i].confidence = Max(est.confidence, sig.confidence)

\* C35: the merged probability is market_price + (external - market_price) x
\* discount rounded to 4 decimals and clamped to [0.02, 0.98]; it lies
\* between the market price and the external value when the market price is
\* itself within [0.02, 0.98]; the merged confidence is the maximum of the
\* keyword confidence and the external confidence
C35_discounted_and_clamped ==
    \A i \in 1..3 : MergedOnce(i) =>
        LET est == sz.given[i]
            sig == SignalFor(i)
            shrunk == RoundHalfEven(1000 * est.current_price
                          + (sig.estimated_probability - est.current_price)
                              * cfg.ai_estimate_discount, 10)
        IN  /\ sz.merged[i].ai_probability = Max(200, Min(9800, shrunk))
            /\ Between(shrunk, 100 * est.current_price,
                       100 * sig.estimated_probability)
            /\ (est.current_price >= 2 /\ est.current_price <= 98) =>
                  Between(sz.merged[i].ai_probability, 100 * est.current_price,
                          100 * sig.estimated_probability)
            /\ sz.merged[i].confidence = Max(est.confidence, sig.confidence)
            /\ sz.merged[i].current_price = est.current_price

\* C35 witness: the external value 0.01 is merged for a market priced 0.01 at
\* discount 0.5: the merged probability is 0.02, above both
C35_witness_clamped_outside ==
    /\ MergedOnce(1)
    /\ cfg.ai_estimate_discount = 500
    /\ sz.given[1].current_price = 1
    /\ SignalFor(1).estimated_probability = 1
    /\ sz.merged[1].ai_probability = 200
    /\ sz.merged[1].confidence = Max(sz.given[1].confidence, SignalFor(1).confidence)

-----------------------------------------------------------------------------
(* Cancelled orders *)

\* the live rows of the store that record filled shares
HeldRows == {i \in DOMAIN db : db[i].mode = "live" /\ db[i].filled_shares > 0}

\* C39: a live position with recorded filled shares greater than 0 is never
\* removed from the store: check_pending_orders cancels and deletes only
\* positions for which no shares were filled
C39_filled_shares_stay_tracked ==
    [][\A i \in HeldRows : i \in DOMAIN db']_vars

-----------------------------------------------------------------------------
(* Live exits *)

\* check_live_exits has just returned
LiveChecked == phase = "sleep" /\ sz.op = "check_live_exits"

\* the open live rows check_live_exits read from the store
LiveRead == live_ids(sz.positions, {"open"})

\* the exchange accepted the sell of row i: the book had a bid and
\* post_order returned
SellAccepted(i) == sz.sales[i].best_bid # NoPrice /\ sz.sales[i].posted

\* the close check_live_exits is to attempt for row i at the price it read
\* for the token, "" for none
CloseDue(i) ==
    LET pos == sz.positions[i]
    IN  IF sz.tokens[i] = NoPrice THEN ""
        ELSE IF 100 * sz.tokens[i] >= pos.target_price THEN "TAKE_PROFIT"
        ELSE IF 100 * sz.tokens[i] <= pos.stop_loss THEN "STOP_LOSS"
        ELSE IF now - pos.entry_time > cfg.live_timeout_hours * TicksPerHour
             THEN "TIMEOUT"
        ELSE ""

-----------------------------------------------------------------------------
(* Sign of the recorded pnl *)

\* the closed positions of every store: the paper book, the arena rows and
\* the live rows
ClosedPositions ==
    {p \in AllPositions \cup {db[i] : i \in live_ids(db, {"closed"})} :
        p.status = "closed"}

\* C36: every position closed with reason TAKE_PROFIT has pnl >= 0 and every
\* position closed with reason STOP_LOSS has pnl <= 0, for BUY_YES and for
\* BUY_NO positions, in the paper book, the arena and the live book
C36_take_profit_gains_stop_loss_loses ==
    \A p \in ClosedPositions :
        /\ p.exit_reason = "TAKE_PROFIT" => p.pnl >= 0
        /\ p.exit_reason = "STOP_LOSS" => p.pnl <= 0

-----------------------------------------------------------------------------
(* Closes and their history records *)

\* the number of history records of the primary book for the position id
HistoryCount(id) ==
    Cardinality({j \in 1..Len(history) : history[j].id = id})

\* the number of trade records that are the one of the closed row
TradeCount(row) ==
    Cardinality({j \in 1..Len(trades) :
                    trades[j] = IF row.mode = "live" THEN live_trade_of(row)
                                ELSE trade_of(row)})

\* C37: once a cycle is over, also when an exception or the cycle timeout
\* aborted it, each closed position has exactly one history record and each
\* history record is the one of a position stored as closed, in the primary
\* book and in the positions table
C37_one_history_record_per_close ==
    CycleOver =>
        /\ \A i \in 1..Len(paper) :
              paper[i].status = "closed" => HistoryCount(paper[i].id) = 1
        /\ \A j \in 1..Len(history) :
              \E i \in 1..Len(paper) :
                 paper[i].id = history[j].id /\ paper[i].status = "closed"
        /\ \A i \in DOMAIN db :
              db[i].status = "closed" => TradeCount(db[i]) = 1
        /\ \A j \in 1..Len(trades) :
              \E i \in DOMAIN db :
                 /\ db[i].id = trades[j].position_id
                 /\ db[i].status = "closed"

-----------------------------------------------------------------------------
(* Entry levels of a position *)

\* 0 < stop_loss < entry_price < target_price <= 1 and shares > 0
LevelsInOrder(p) ==
    /\ 0 < p.stop_loss
    /\ p.stop_loss < 100 * p.entry_price
    /\ 100 * p.entry_price < p.target_price
    /\ p.target_price <= 10000
    /\ p.shares > 0

\* the step is an exit check
ExitCheck == last.op # "check_exits" /\ last'.op = "check_exits"

\* C38: every position created by open_position or try_open has 0 <
\* stop_loss < entry_price < target_price <= 1 and shares > 0, and no exit
\* check modifies entry_price, target_price, stop_loss, direction or
\* market_id of a stored position, or removes the position
C38_levels_in_order_and_kept ==
    [][/\ \A p \in AllPositions' \ AllPositions : LevelsInOrder(p)
       /\ ExitCheck =>
             /\ Len(paper') = Len(paper)
             /\ DOMAIN db' = DOMAIN db
             /\ \A pr \in {<<paper[i], paper'[i]>> : i \in 1..Len(paper)}
                          \cup RowPairs :
                   /\ pr[2].entry_price = pr[1].entry_price
                   /\ pr[2].target_price = pr[1].target_price
                   /\ pr[2].stop_loss = pr[1].stop_loss
                   /\ pr[2].direction = pr[1].direction
                   /\ pr[2].market_id = pr[1].market_id
                   /\ LevelsInOrder(pr[2])]_vars

\* C38 witness: a BUY_NO position an exit check closed, with the levels it
\* was created with
C38_witness_closed_with_entry_levels ==
    /\ last.op = "check_exits"
    /\ \E p \in AllPositions :
          /\ p.direction = "BUY_NO"
          /\ p.status = "closed" /\ p.exit_time = now
          /\ LevelsInOrder(p)

-----------------------------------------------------------------------------
(* Alerts *)

\* dedup_signals has just returned
Deduped == phase = "signals" /\ sz.op = "dedup_signals"

\* the hours since the key of the i-th given signal was alerted before the
\* call, None when it never was; an earlier signal of the same list with that
\* key counts as alerted now
AlertAge(i) ==
    LET key == cooldown_key(sz.given[i])
    IN  IF \E j \in 1..(i - 1) : cooldown_key(sz.given[j]) = key THEN 0
        ELSE IF key \in DOMAIN sz.found THEN now - sz.found[key]
        ELSE None

\* the given signals that passed the cooldown check of the code
PassedCooldown ==
    {i \in 1..Len(sz.given) :
        AlertAge(i) = None
            \/ AlertAge(i) >= SIGNAL_COOLDOWN_HOURS * TicksPerHour}

Returned(i) == \E k \in 1..Len(signals) : signals[k] = sz.given[i]

\* C31: a signal whose key was alerted less than cfg.signal_cooldown_hours
\* ago is not returned, and one whose key was alerted at least that long ago
\* is returned when the list is within the alert limit
C31_cooldown_window_of_config ==
    Deduped =>
        \A i \in 1..Len(sz.given) :
            AlertAge(i) # None =>
                /\ AlertAge(i) < cfg.signal_cooldown_hours * TicksPerHour
                      => ~Returned(i)
                /\ (/\ AlertAge(i) >= cfg.signal_cooldown_hours * TicksPerHour
                    /\ Len(sz.given) <= cfg.max_alerts_per_hour)
                      => Returned(i)

\* C40: a signal that passed the cooldown check and was cut by the alert
\* limit has no cooldown started by the call
C40_cut_signal_keeps_no_cooldown ==
    Deduped =>
        \A i \in PassedCooldown :
            ~Returned(i) =>
                LET key == cooldown_key(sz.given[i])
                IN  \/ key \notin DOMAIN cooldowns
                    \/ (key \in DOMAIN sz.found /\ cooldowns[key] = sz.found[key])

=============================================================================
